---------------------------- MODULE Spec2Model ----------------------------
(***************************************************************************)
(* RGB LED strip controller: the two Arduino sketches of the repository.   *)
(*   "v1"  src/RGB_LED_Strip_Controller.ino   (5 January 2017)             *)
(*   "v2"  src/unnamed/part_001               (v. 2.1, 25 October 2022)    *)
(* The main loop is modelled pass by pass: the frame phase (idle check,    *)
(* receive, decode, key handler, display/save) and then the variable-hue   *)
(* phase.  The float variables of the sketches are fixed-point integers    *)
(* with Scale units per 1.0, rounded to the nearest unit; NaN and the      *)
(* infinities of IEEE arithmetic are kept as three reserved values.        *)
(***************************************************************************)
EXTENDS Integers, Sequences, FiniteSets, TLC

\* ------------------------------------------------------------ arithmetic
\* Fixed-point scale: 1.0 == Scale.  30000 makes 1/3, 1/50, 1/400, .05,
\* .0001 and .9999 whole numbers of units.
Scale == 3 * 10000

NaN == 0 - 2000000000
PINF == 2 * 1000000000
NINF == 0 - 1999999999
\* largest magnitude kept as a finite value (about 33333 * Scale)
FMAX == 1000000000 + 0
\* largest divisor the long division takes as it is
DMAX == 5 * 10000000

IsNaN(x) == x = NaN
IsInf(x) == x = PINF \/ x = NINF
IsFinite(x) == ~IsNaN(x) /\ ~IsInf(x)

Abs(x) == IF x < 0 THEN 0 - x ELSE x
Sgn(x) == IF x < 0 THEN 0 - 1 ELSE IF x > 0 THEN 1 ELSE 0
Sat(x) == IF x > FMAX THEN PINF ELSE IF x < 0 - FMAX THEN NINF ELSE x

\* F(n, d): the literal n/d as a fixed-point value, e.g. F(5, 100) for .05
F(n, d) == (n * Scale + d \div 2) \div d

\* product of two non-negative finite values, rounded to nearest
MulP(a, b) ==
  LET a1 == a \div Scale
      a0 == a % Scale
      b1 == b \div Scale
      b0 == b % Scale
  IN  IF a1 * b1 > FMAX \div Scale THEN PINF
      ELSE Sat(a1 * b1 * Scale + a1 * b0 + a0 * b1 + (a0 * b0 + Scale \div 2) \div Scale)

\* quotient of a non-negative finite value by a positive finite one (long
\* division in three stages, 30 * 25 * 40 = Scale, so nothing overflows)
DivQ(a, b) ==
  LET q  == a \div b
      r  == a % b
      q1 == (r * 30) \div b
      r1 == (r * 30) % b
      q2 == (r1 * 25) \div b
      r2 == (r1 * 25) % b
      q3 == (r2 * 40 + b \div 2) \div b
  IN  IF q > FMAX \div Scale THEN PINF
      ELSE Sat(q * Scale + q1 * 1000 + q2 * 40 + q3)

\* a divisor above DMAX is first brought under it (both operands shrunk alike)
DivP(a, b) ==
  IF b <= DMAX THEN DivQ(a, b) ELSE DivQ(a \div 64, b \div 64)

Neg(x) == IF IsNaN(x) THEN NaN ELSE IF x = PINF THEN NINF ELSE IF x = NINF THEN PINF ELSE 0 - x

FAdd(a, b) ==
  IF IsNaN(a) \/ IsNaN(b) THEN NaN
  ELSE IF IsInf(a) /\ IsInf(b) THEN (IF a = b THEN a ELSE NaN)
  ELSE IF IsInf(a) THEN a
  ELSE IF IsInf(b) THEN b
  ELSE Sat(a + b)

FSub(a, b) == FAdd(a, Neg(b))

FMul(a, b) ==
  IF IsNaN(a) \/ IsNaN(b) THEN NaN
  ELSE IF IsInf(a) \/ IsInf(b)
       THEN (IF a = 0 \/ b = 0 THEN NaN
             ELSE IF Sgn(a) * Sgn(b) > 0 THEN PINF ELSE NINF)
  ELSE LET p == MulP(Abs(a), Abs(b))
       IN  IF Sgn(a) * Sgn(b) < 0 THEN Neg(p) ELSE p

FDiv(a, b) ==
  IF IsNaN(a) \/ IsNaN(b) THEN NaN
  ELSE IF IsInf(a) /\ IsInf(b) THEN NaN
  ELSE IF IsInf(a) THEN (IF Sgn(a) * (IF b < 0 THEN 0 - 1 ELSE 1) > 0 THEN PINF ELSE NINF)
  ELSE IF IsInf(b) THEN 0
  ELSE IF b = 0 THEN (IF a = 0 THEN NaN ELSE IF a > 0 THEN PINF ELSE NINF)
  ELSE IF Abs(b) > FMAX THEN 0
  ELSE LET q == DivP(Abs(a), Abs(b))
       IN  IF Sgn(a) * Sgn(b) < 0 THEN Neg(q) ELSE q

\* IEEE comparisons: every ordered comparison with a NaN is false
FLt(a, b) == ~IsNaN(a) /\ ~IsNaN(b) /\ a < b
FLe(a, b) == ~IsNaN(a) /\ ~IsNaN(b) /\ a <= b
FGt(a, b) == FLt(b, a)
FGe(a, b) == FLe(b, a)
FEq(a, b) == ~IsNaN(a) /\ ~IsNaN(b) /\ a = b

\* Arduino's min/max macros: ((a)<(b)?(a):(b)) and ((a)>(b)?(a):(b))
Min(a, b) == IF FLt(a, b) THEN a ELSE b
Max(a, b) == IF FGt(a, b) THEN a ELSE b


\* ------------------------------------------------------------- constants
One == Scale
MAX_RGB == 255 * Scale
MIN_RGB == Scale
\* MIN_BRIGHT = MIN_RGB / 3.0 / MAX_RGB
MIN_BRIGHT == F(1, 3 * 255)
MIN_STEP_TIME == 100
MAX_STEP_TIME == 10000
HUE_STEPS == 400
BRIGHT_STEPS == 60
RGB_STEPS == 60
SAT_STEPS == 50
\* pow(10.0, log10(1.0 / MAX_RGB) / BRIGHT_STEPS) = 255^(-1/60) = 0.911782
\* (BRIGHT_STEPS = RGB_STEPS = 60 in the v1 sketch)
LogStep == (911782 * 3) \div 100

\* key codes of the Adafruit Mini Remote (low 16 bits of the NEC value)
INIT == 12495
VAR_HUE == 45135
NEXT_HUE == 24735
PREV_HUE == 8415
DESATURATE == 41055
SATURATE == 20655
PURE == 28815
DIM == 36975
BRIGHTEN == 32895
INCR_RED == 2295
INCR_GREEN == 34935
INCR_BLUE == 18615
DECR_RED == 10455
DECR_GREEN == 43095
DECR_BLUE == 26775
WARM_WHITE == 6375
BRIGHT_WHITE == 39015
DAYLIGHT == 22695

KnownKeys == {INIT, VAR_HUE, NEXT_HUE, PREV_HUE, DESATURATE, SATURATE, PURE, DIM,
              BRIGHTEN, INCR_RED, INCR_GREEN, INCR_BLUE, DECR_RED, DECR_GREEN,
              DECR_BLUE, WARM_WHITE, BRIGHT_WHITE, DAYLIGHT}
IncrKeys == {INCR_RED, INCR_GREEN, INCR_BLUE}
DecrKeys == {DECR_RED, DECR_GREEN, DECR_BLUE}
PresetKeys == {WARM_WHITE, BRIGHT_WHITE, DAYLIGHT}

\* ------------------------------------------- v1 colour engine (triangular)
Max3(r, g, b) == Max(r, Max(g, b))
Min3(r, g, b) == Min(r, Min(g, b))

\* HSBtoRGB: the hue validated, then hue *= 3.0
Phase1(hueIn) ==
  FMul(IF FLt(hueIn, 0) THEN 0 ELSE IF FGt(hueIn, One) THEN One ELSE hueIn, 3 * One)

\* HSBtoRGB: the three linear ramps of the pure hue, h in 0 .. 3
RedRamp1(h) ==
  IF FGe(h, 0) /\ FLe(h, One) THEN FMul(MAX_RGB, FSub(h, 0))
  ELSE IF FGt(h, One) /\ FLe(h, 2 * One) THEN FSub(MAX_RGB, FMul(MAX_RGB, FSub(h, One)))
  ELSE 0
GreenRamp1(h) ==
  IF FGe(h, One) /\ FLe(h, 2 * One) THEN FMul(MAX_RGB, FSub(h, One))
  ELSE IF FGt(h, 2 * One) /\ FLe(h, 3 * One)
       THEN FSub(MAX_RGB, FMul(MAX_RGB, FSub(h, 2 * One)))
  ELSE 0
BlueRamp1(h) ==
  IF FGe(h, 2 * One) /\ FLe(h, 3 * One) THEN FMul(MAX_RGB, FSub(h, 2 * One))
  ELSE IF FGe(h, 0) /\ FLe(h, One) THEN FSub(MAX_RGB, FMul(MAX_RGB, FSub(h, 0)))
  ELSE 0

\* the desaturation with sat and 1 - sat exchanged
Desat1Exchanged(s, pure) == FAdd(FDiv(FMul(s, MAX_RGB), 3 * One), FMul(FSub(One, s), pure))
\* HSBtoRGB: red = (1 - sat) * MAX_RGB / 3.0 + sat * red
Desat1(s, pure) == FAdd(FDiv(FMul(FSub(One, s), MAX_RGB), 3 * One), FMul(s, pure))

\* HSBtoRGB: red *= bright * 3.0, and so green and blue
Scaled1(br, r, g, b) ==
  [bright |-> br, red |-> FMul(r, FMul(br, 3 * One)),
   green |-> FMul(g, FMul(br, 3 * One)), blue |-> FMul(b, FMul(br, 3 * One))]

\* HSBtoRGB: if (bright > lim) bright = lim
Limit1(brightIn, lim) == IF FGt(brightIn, lim) THEN lim ELSE brightIn

\* HSBtoRGB: bright is limited by the largest primary
Levels1(brightIn, r, g, b) ==
  Scaled1(Limit1(brightIn, FDiv(FDiv(MAX_RGB, Max3(r, g, b)), 3 * One)), r, g, b)

Ramps1(s, brightIn, h) ==
  Levels1(brightIn, Desat1(s, RedRamp1(h)), Desat1(s, GreenRamp1(h)),
          Desat1(s, BlueRamp1(h)))

\* v1 HSBtoRGB(hue, sat, float & bright, float & red, float & green, float & blue):
\* hue and sat by value; returns the (possibly capped) bright and the channels
HSBtoRGB1(hueIn, s, brightIn) == Ramps1(s, brightIn, Phase1(hueIn))

\* MAX_RGB / 3.0
Third == 85 * One

\* RGBtoHSB: red *= MAX_RGB / sum when sum > 0.0
Norm1(x, sum) == IF FGt(sum, 0) THEN FMul(x, FDiv(MAX_RGB, sum)) ELSE x

\* RGBtoHSB: which primary is the lowest, by the order of the tests
Lowest1(r, g, b) ==
  IF FLe(r, Min(g, b)) THEN "red"
  ELSE IF FLe(g, Min(r, b)) THEN "green"
  ELSE IF FLe(b, Min(g, r)) THEN "blue"
  ELSE "none"

\* the resaturation without its division by sat
Resat1Undivided(x, s) == FAdd(FSub(x, Third), FMul(Third, s))
\* RGBtoHSB: green = (green - MAX_RGB / 3.0 + MAX_RGB / 3.0 * sat) / sat
Resat1(x, s) == FDiv(FAdd(FSub(x, Third), FMul(Third, s)), s)

\* RGBtoHSB: a primary after the lowest one is removed
Pure1(ch, low, x, s) == IF low = ch THEN 0 ELSE IF low = "none" THEN x ELSE Resat1(x, s)

\* RGBtoHSB: the ramp interpolation reversed; the last assignment made wins
HueOf1(hueIn, rp, gp, bp) ==
  IF FGe(bp, Max(gp, rp))
  THEN (IF FGt(gp, rp) THEN FAdd(2 * One, FDiv(bp, MAX_RGB)) ELSE FAdd(0, FDiv(rp, MAX_RGB)))
  ELSE IF FGe(gp, Max(rp, bp))
  THEN (IF FGt(rp, bp) THEN FAdd(One, FDiv(gp, MAX_RGB)) ELSE FSub(3 * One, FDiv(gp, MAX_RGB)))
  ELSE IF FGe(rp, Max(gp, bp))
  THEN (IF FGt(bp, gp) THEN FDiv(rp, MAX_RGB) ELSE FSub(2 * One, FDiv(rp, MAX_RGB)))
  ELSE hueIn

\* RGBtoHSB: hue is written only when sat > 0.0 && bright > 0.0
Unramp1(hueIn, br, s, rp, gp, bp) ==
  [hue |-> IF FGt(s, 0) /\ FGt(br, 0) THEN FDiv(HueOf1(hueIn, rp, gp, bp), 3 * One)
           ELSE hueIn,
   sat |-> s, bright |-> br]

Unmix1(hueIn, br, r, g, b, s, low) ==
  Unramp1(hueIn, br, s, Pure1("red", low, r, s), Pure1("green", low, g, s),
          Pure1("blue", low, b, s))

\* RGBtoHSB: sat = (MAX_RGB / 3.0 - min(red, min(green, blue))) / (MAX_RGB / 3.0)
Normal1(hueIn, br, r, g, b) ==
  Unmix1(hueIn, br, r, g, b, FDiv(FSub(Third, Min3(r, g, b)), Third), Lowest1(r, g, b))

\* RGBtoHSB: bright = sum / MAX_RGB / 3.0, then the local RGB normalised
Summed1(hueIn, r, g, b, sum) ==
  Normal1(hueIn, FDiv(FDiv(sum, MAX_RGB), 3 * One), Norm1(r, sum), Norm1(g, sum),
          Norm1(b, sum))

\* v1 RGBtoHSB(float & hue, float & sat, float & bright, red, green, blue):
\* the channels by value; hue is written only when sat > 0 and bright > 0
RGBtoHSB1(hueIn, redIn, greenIn, blueIn) ==
  Summed1(hueIn, redIn, greenIn, blueIn, FAdd(FAdd(redIn, greenIn), blueIn))

\* --------------------------------------------- v2 colour engine (rainbow)
\* What an uninitialised float local of the v2 functions may hold: a value
\* in the channel range, a value out of it.
Junk == {MAX_RGB, Neg(One)}
\* the locals of a call that reads none of them, or reads a zero bluePure
NoJunk == [pure |-> 0, redSat |-> 0, greenSat |-> 0, blueSat |-> 0]
\* One draw of the uninitialised locals of a call: `pure` stands for any of
\* redPure/greenPure/bluePure read before it was assigned, and the three
\* ...Sat fields for redSat, greenSat, blueSat.  The ...Sat locals are read
\* only when the pure one is not zero, and then only they matter.
Uninit ==
  {NoJunk} \cup [pure : {MAX_RGB}, redSat : Junk, greenSat : Junk, blueSat : Junk]

\* HSBtoRGB: the hue validated
Valid2(hueIn) == IF FLt(hueIn, 0) THEN 0 ELSE IF FGe(hueIn, 255 * One) THEN 0 ELSE hueIn

\* HSBtoRGB: the segment of the rainbow chart whose block runs, 0 for none
\* (a NaN hue); the six tests exclude one another
Segment2(h) ==
  IF FLt(h, 32 * One) THEN 1
  ELSE IF FGe(h, 32 * One) /\ FLt(h, 64 * One) THEN 2
  ELSE IF FGe(h, 64 * One) /\ FLt(h, 96 * One) THEN 3
  ELSE IF FGe(h, 96 * One) /\ FLt(h, 128 * One) THEN 4
  ELSE IF FGe(h, 128 * One) /\ FLt(h, 160 * One) THEN 5
  ELSE IF FGe(h, 160 * One) THEN 6
  ELSE 0

\* the hue ranges in which HSBtoRGB reads an uninitialised local:
\* 64 <= hue < 96 never assigns bluePure, and a NaN hue matches no segment
ReadsUninit(hueIn) == Segment2(Valid2(hueIn)) \in {0, 3}

RedPure2(h, seg, u) ==
  CASE seg = 1 -> FSub(255 * One, FMul(F(255 - 170, 32), h))
    [] seg = 2 -> 170 * One
    [] seg = 3 -> FSub(170 * One, FMul(F(170, 32), FSub(h, 64 * One)))
    [] seg = 4 -> 0
    [] seg = 5 -> 0
    [] seg = 6 -> FMul(F(255, 256 - 160), FSub(h, 160 * One))
    [] OTHER -> u.pure
GreenPure2(h, seg, u) ==
  CASE seg = 1 -> FDiv(FMul((255 - 170) * One, h), 32 * One)
    [] seg = 2 -> FDiv(FMul(h, 255 * One), 96 * One)
    [] seg = 3 -> FAdd(170 * One, FDiv(FMul(FSub(h, 64 * One), 255 * One), 96 * One))
    [] seg = 4 -> FSub(255 * One, FDiv(FMul(FSub(h, 96 * One), (255 - 170) * One),
                                       (128 - 96) * One))
    [] seg = 5 -> FSub(170 * One, FMul(F(170, 160 - 128), FSub(h, 128 * One)))
    [] seg = 6 -> 0
    [] OTHER -> u.pure
BluePure2(h, seg, u) ==
  CASE seg = 1 -> 0
    [] seg = 2 -> 0
    [] seg = 4 -> FDiv(FMul(FSub(h, 96 * One), 85 * One), (128 - 96) * One)
    [] seg = 5 -> FAdd(85 * One, FMul(F(255 - 85, 160 - 128), FSub(h, 128 * One)))
    [] seg = 6 -> FSub(255 * One, FMul(F(255, 256 - 160), FSub(h, 160 * One)))
    [] OTHER -> u.pure

\* HSBtoRGB: which branch of the desaturation runs
Zero2(rp, gp, bp) ==
  IF FEq(rp, 0) THEN "red"
  ELSE IF FEq(gp, 0) THEN "green"
  ELSE IF FEq(bp, 0) THEN "blue"
  ELSE "none"

\* HSBtoRGB: (1. - sat) * MAX_RGB, and sat * pure + (1. - sat) * MAX_RGB
White2(s) == FMul(FSub(One, s), MAX_RGB)
Mix2(s, x) == FAdd(FMul(s, x), White2(s))

\* HSBtoRGB: redSat, greenSat or blueSat; in no branch it is never assigned
Sat2(ch, z, s, x, junk) ==
  IF z = ch THEN White2(s) ELSE IF z = "none" THEN junk ELSE Mix2(s, x)

\* HSBtoRGB: red = redSat * bright; if (red > 255.) red = 255.
Clamp2(x) == IF FGt(x, 255 * One) THEN 255 * One ELSE x
Bright2(br, rs, gs, bs) ==
  [bright |-> br, red |-> Clamp2(FMul(rs, br)), green |-> Clamp2(FMul(gs, br)),
   blue |-> Clamp2(FMul(bs, br))]

Desat2(s, br, u, rp, gp, bp, z) ==
  Bright2(br, Sat2("red", z, s, rp, u.redSat), Sat2("green", z, s, gp, u.greenSat),
          Sat2("blue", z, s, bp, u.blueSat))

Pures2(s, br, u, rp, gp, bp) == Desat2(s, br, u, rp, gp, bp, Zero2(rp, gp, bp))

Segments2(s, br, u, h, seg) ==
  Pures2(s, br, u, RedPure2(h, seg, u), GreenPure2(h, seg, u), BluePure2(h, seg, u))

Valid2Then(s, br, u, h) == Segments2(s, br, u, h, Segment2(h))

\* v2 HSBtoRGB(hue, sat, float & bright, float & red, float & green, float & blue)
\* u: the values of the uninitialised locals for this call
HSBtoRGB2(hueIn, s, br, u) == Valid2Then(s, br, u, Valid2(hueIn))

\* RGBtoHSB: which of the three branches runs
Lowest2(r, g, b) ==
  IF FLe(r, Min(g, b)) THEN "red"
  ELSE IF FLe(g, Min(r, b)) THEN "green"
  ELSE IF FLe(b, Min(r, g)) THEN "blue"
  ELSE "none"

\* RGBtoHSB: sat = (1. - redSat / MAX_RGB) for the lowest channel
SatOf2(low, satIn, r, g, b) ==
  CASE low = "red" -> FSub(One, FDiv(r, MAX_RGB))
    [] low = "green" -> FSub(One, FDiv(g, MAX_RGB))
    [] low = "blue" -> FSub(One, FDiv(b, MAX_RGB))
    [] OTHER -> satIn

\* RGBtoHSB: greenPure = (greenSat + 255.*sat - 255.) / sat
Unsat2(x, s) == FDiv(FSub(FAdd(x, FMul(255 * One, s)), 255 * One), s)

\* RGBtoHSB: redPure, greenPure or bluePure; in no branch it is never assigned
PureOf2(ch, low, x, s, junk) ==
  IF low = ch THEN 0 ELSE IF low = "none" THEN junk ELSE Unsat2(x, s)

\* RGBtoHSB: if (redPure == 0 & greenPure == 0.) ... else if (greenPure ==
\* bluePure == 0.) ... else if (bluePure == redPure == 0.): a == b == 0. is
\* (a == b) == 0.
Primary2(hueIn, rp, gp, bp) ==
  IF FEq(rp, 0) /\ FEq(gp, 0) THEN 160 * One
  ELSE IF ~FEq(gp, bp) THEN 0
  ELSE IF ~FEq(bp, rp) THEN 96 * One
  ELSE hueIn

\* RGBtoHSB: the piecewise interpolation reversed; h1 is hue as it stands,
\* q is red / green, rg is redPure / greenPure, gb is greenPure / bluePure
Unramp2(h1, q, rp, gp, bp, rg, gb) ==
  IF FLe(bp, Min(rp, gp))
  THEN (IF FGe(rg, 2 * One) THEN FDiv(96 * One, FAdd(rg, One))
        ELSE IF FGe(q, One) THEN FDiv(64 * One, rg)
        ELSE FAdd(64 * One, FDiv(FSub(170 * One, FMul(170 * One, rg)),
                                 FAdd(FMul(F(256, 96), rg), F(170, 32)))))
  ELSE IF FLt(rp, Min(bp, gp))
  THEN (IF FGt(gb, 2 * One)
        THEN FAdd(96 * One,
                  FDiv(255 * One, FAdd(FDiv(FMul(gb, 85 * One), (128 - 96) * One),
                                       F(255 - 170, 128 - 96))))
        ELSE FAdd(128 * One,
                  FDiv(FSub(170 * One, FMul(85 * One, gb)),
                       FAdd(F(170, 160 - 128),
                            FDiv(FMul(gb, (255 - 85) * One), (160 - 128) * One)))))
  ELSE IF FLt(gp, Min(rp, bp))
  THEN FAdd(160 * One, FDiv((256 - 160) * One, FAdd(One, FDiv(bp, rp))))
  ELSE h1

\* RGBtoHSB: if (hue == 0.) hue = .1; if (hue >= 255) hue = .1
Avoid2(h) == IF FEq(h, 0) THEN F(1, 10) ELSE IF FGe(h, 255 * One) THEN F(1, 10) ELSE h

HueOf2(hueIn, q, s, rp, gp, bp, junk) ==
  [hue |-> Avoid2(Unramp2(Primary2(hueIn, rp, gp, bp), q, rp, gp, bp,
                          FDiv(rp, gp), FDiv(gp, bp))),
   sat |-> s, junk |-> junk]

Unmix2(hueIn, r, g, b, u, low, s) ==
  HueOf2(hueIn, FDiv(r, g), s, PureOf2("red", low, r, s, u.pure),
         PureOf2("green", low, g, s, u.pure), PureOf2("blue", low, b, s, u.pure),
         low = "none")

Lowest2Then(hueIn, satIn, r, g, b, u, low) ==
  Unmix2(hueIn, r, g, b, u, low, SatOf2(low, satIn, r, g, b))

\* v2 RGBtoHSB(float & hue, float & sat, float & bright, red, green, blue):
\* bright is never written; hue is written by whichever assignments run;
\* junk: the call read an uninitialised local
RGBtoHSB2(hueIn, satIn, red, green, blue, u) ==
  Lowest2Then(hueIn, satIn, red, green, blue, u, Lowest2(red, green, blue))

\* ------------------------------------------------------- key handlers
\* A handler takes the session's colour state c (a record of the globals
\* hue, sat, bright, red, green, blue, pwmCyclesON, variableHue,
\* hueStepTime) and returns it with four more fields: blinks (calls of
\* blink()), wait (ms spent in delay()), timerSet (hueStepTimer was
\* assigned MIN_STEP_TIME) and junk (an uninitialised local was read).
BLINK_MS1 == 20
BLINK_MS2 == 50 + 50
INIT_DELAY2 == 100

Quiet(c) == [hue |-> c.hue, sat |-> c.sat, bright |-> c.bright,
             red |-> c.red, green |-> c.green, blue |-> c.blue,
             pwmCyclesON |-> c.pwmCyclesON, variableHue |-> c.variableHue,
             hueStepTime |-> c.hueStepTime,
             blinks |-> 0, wait |-> 0, timerSet |-> FALSE, junk |-> FALSE]

\* v1 blink(): outputs forced to 0, delay(20), DisplayRGB()
Blink1(c) == [c EXCEPT !.blinks = @ + 1, !.wait = @ + BLINK_MS1]
\* v2 blink(): compare registers 0, delay(50), registers 255, delay(50)
Blink2(c) == [c EXCEPT !.blinks = @ + 1, !.wait = @ + BLINK_MS2]

\* HSBtoRGB with hue taken by reference: v1's hue *= 3.0 reaches the global
WithRGBHueByRef(c, x) ==
  [c EXCEPT !.hue = FMul(@, 3 * One), !.bright = x.bright, !.red = x.red,
            !.green = x.green, !.blue = x.blue]
WithRGB(c, x) == [c EXCEPT !.bright = x.bright, !.red = x.red,
                           !.green = x.green, !.blue = x.blue]
WithHSB1(c, x) == [c EXCEPT !.hue = x.hue, !.sat = x.sat, !.bright = x.bright]
WithHS2(c, x) == [c EXCEPT !.hue = x.hue, !.sat = x.sat, !.junk = @ \/ x.junk]

\* HSBtoRGB(hue, sat, bright, red, green, blue) on the globals
ToRGB1(c) == WithRGB(c, HSBtoRGB1(c.hue, c.sat, c.bright))
\* RGBtoHSB(hue, sat, bright, red, green, blue) on the globals
ToHSB1(c) == WithHSB1(c, RGBtoHSB1(c.hue, c.red, c.green, c.blue))

\* if (hue > 1.0) hue = 0.0
Wrap1(h) == IF FGt(h, One) THEN 0 ELSE h
\* v1 NEXT_HUE, also the step of the variable-hue animation
StepHue1(h) ==
  Wrap1(IF FGt(h, One) /\ FLt(h, 2 * One) THEN FAdd(h, FMul(F(1, HUE_STEPS), 2 * One))
        ELSE FAdd(h, F(1, HUE_STEPS)))

\* if (hue < 1 / HUE_STEPS) hue = 1.0; 1 / HUE_STEPS is an integer division, 0
WrapBack1(h) == IF FLt(h, (1 \div HUE_STEPS) * One) THEN One ELSE h
\* v1 PREV_HUE
BackHue1(h) ==
  WrapBack1(IF FGt(h, One) /\ FLt(h, 2 * One) THEN FSub(h, FMul(F(1, HUE_STEPS), 2 * One))
            ELSE FSub(h, F(1, HUE_STEPS)))

\* the result of a channel's step: its value and whether blink() ran
AtTop1(x) == [v |-> IF FGe(x, MAX_RGB) THEN MAX_RGB ELSE x, blink |-> FGe(x, MAX_RGB)]
AtBottom1(x) == [v |-> IF FLt(x, MIN_RGB) THEN 0 ELSE x, blink |-> FLt(x, MIN_RGB)]
\* v1 INCR_<channel>
Incr1(x) == AtTop1(IF FLt(x, MIN_RGB) THEN MIN_RGB ELSE FDiv(x, LogStep))
\* v1 DECR_<channel>
Decr1(x) == AtBottom1(FMul(x, LogStep))

Blinked1(c, e) == IF e.blink THEN Blink1(c) ELSE c
EditRGB1(c, ch, e) ==
  CASE ch = "red" -> Blinked1([c EXCEPT !.red = e.v, !.variableHue = FALSE], e)
    [] ch = "green" -> Blinked1([c EXCEPT !.green = e.v, !.variableHue = FALSE], e)
    [] ch = "blue" -> Blinked1([c EXCEPT !.blue = e.v, !.variableHue = FALSE], e)

Preset(c, r, g, b) ==
  [c EXCEPT !.red = r * One, !.green = g * One, !.blue = b * One, !.variableHue = FALSE]

\* v1 DESATURATE and SATURATE, s the stepped sat
Desaturate1(c, s) ==
  IF FLt(s, 0) THEN Blink1([c EXCEPT !.sat = 0]) ELSE [c EXCEPT !.sat = s]
Saturate1(c, s) ==
  IF FGt(s, One) THEN Blink1([c EXCEPT !.sat = One]) ELSE [c EXCEPT !.sat = s]

HSBKeys1 == {INIT, NEXT_HUE, PREV_HUE, DESATURATE, SATURATE, PURE, DIM, BRIGHTEN}
RGBKeys == IncrKeys \cup DecrKeys \cup PresetKeys

\* v1 loop(), switch (MyDecoder.value & 0xffff): each case up to its conversion
Case1(k, c) ==
  CASE k = INIT -> [c EXCEPT !.hue = 0, !.sat = One, !.bright = F(1, 3)]
    [] k = VAR_HUE ->
         IF c.variableHue THEN Blink1([c EXCEPT !.hueStepTime = @ * 2])
         ELSE [c EXCEPT !.variableHue = TRUE]
    [] k = NEXT_HUE -> [c EXCEPT !.hue = StepHue1(@)]
    [] k = PREV_HUE -> [c EXCEPT !.hue = BackHue1(@)]
    [] k = DESATURATE -> Desaturate1(c, FSub(c.sat, F(1, SAT_STEPS)))
    [] k = SATURATE -> Saturate1(c, FAdd(c.sat, F(1, SAT_STEPS)))
    [] k = PURE -> [c EXCEPT !.sat = One, !.bright = One, !.variableHue = FALSE]
    [] k = DIM -> [c EXCEPT !.bright = FMul(@, LogStep)]
    [] k = BRIGHTEN ->
         [c EXCEPT !.bright = FDiv(IF FLt(@, MIN_BRIGHT) THEN MIN_BRIGHT ELSE @, LogStep)]
    [] k = INCR_RED -> EditRGB1(c, "red", Incr1(c.red))
    [] k = INCR_GREEN -> EditRGB1(c, "green", Incr1(c.green))
    [] k = INCR_BLUE -> EditRGB1(c, "blue", Incr1(c.blue))
    [] k = DECR_RED -> EditRGB1(c, "red", Decr1(c.red))
    [] k = DECR_GREEN -> EditRGB1(c, "green", Decr1(c.green))
    [] k = DECR_BLUE -> EditRGB1(c, "blue", Decr1(c.blue))
    [] k = WARM_WHITE -> Preset(c, 255, 147, 41)
    [] k = BRIGHT_WHITE -> Preset(c, 255, 241, 170)
    [] k = DAYLIGHT -> Preset(c, 255, 241, 255)
    [] OTHER -> c

\* the conversion the case calls: HSBtoRGB after an HSB edit, RGBtoHSB after
\* an RGB edit or a preset, none for VAR_HUE and the default
Convert1(k, c) ==
  IF k \in HSBKeys1 THEN ToRGB1(c) ELSE IF k \in RGBKeys THEN ToHSB1(c) ELSE c

\* what the case does after its conversion
Rest1(k, c) ==
  CASE k = INIT -> [c EXCEPT !.timerSet = TRUE]
    [] k = DIM -> IF FLt(c.bright, MIN_BRIGHT) THEN [c EXCEPT !.bright = MIN_BRIGHT] ELSE c
    [] k = BRIGHTEN ->
         IF FEq(c.red, MAX_RGB) \/ FEq(c.green, MAX_RGB) \/ FEq(c.blue, MAX_RGB)
         THEN Blink1(c) ELSE c
    [] OTHER -> c

\* v1 loop(): switch (MyDecoder.value & 0xffff)
Handler1(k, cIn) == Rest1(k, Convert1(k, Case1(k, Quiet(cIn))))

\* the step Increment(float & rgb) divides by, the factor Decrement
\* multiplies by
Fudge2(x, base) == FSub(base, FMul(F(3, 10), FSub(One, FDiv(x, 255 * One))))
AtTop2(x) == [v |-> IF FGe(x, 254 * One) THEN 254 * One ELSE x, blink |-> FGe(x, 254 * One)]
AtBottom2(x) == [v |-> IF FLt(x, F(1, 10)) THEN F(1, 10) ELSE x, blink |-> FLt(x, F(1, 10))]
Raise2(x) == AtTop2(FDiv(x, Fudge2(x, F(90, 100))))
\* v2 Increment(float & rgb): the channel after the step, and whether it blinked
Increment2(x) == Raise2(IF FLt(x, One) THEN One ELSE x)
\* v2 Decrement(float & rgb)
Decrement2(x) == AtBottom2(FMul(x, Fudge2(x, F(97, 100))))

\* Increment/Decrement on a global: the channel stored, blink() at the limit
Blinked2(c, e) == IF e.blink THEN Blink2(c) ELSE c
EditRGB2(c, ch, e) ==
  CASE ch = "red" -> Blinked2([c EXCEPT !.red = e.v], e)
    [] ch = "green" -> Blinked2([c EXCEPT !.green = e.v], e)
    [] ch = "blue" -> Blinked2([c EXCEPT !.blue = e.v], e)

\* RGBtoHSB(hue, sat, bright, red, green, blue) on the globals
ToHSB2(c, u) == WithHS2(c, RGBtoHSB2(c.hue, c.sat, c.red, c.green, c.blue, u))

\* v2 INIT: step to the next primary or secondary colour
NextPrimary2(h) ==
  IF FGe(h, 192 * One) THEN 0
  ELSE IF FGe(h, 160 * One) THEN 192 * One
  ELSE IF FGe(h, 128 * One) THEN 160 * One
  ELSE IF FGe(h, 96 * One) THEN 128 * One
  ELSE IF FGe(h, 64 * One) THEN 96 * One
  ELSE IF FGe(h, 0) THEN 64 * One
  ELSE h

\* sqrt(2) and 1/sqrt(2) as the sketch writes them: 1.414213 and 0.707106
BrightUp2 == (1414213 * 3) \div 100
BrightDown2 == (707106 * 3) \div 100

NextHue2(c, h) == [c EXCEPT !.hue = IF FGt(h, 254 * One) THEN 0 ELSE h]
PrevHue2(c, h) == [c EXCEPT !.hue = IF FLt(h, 0) THEN 254 * One ELSE h]
Desaturate2(c, s) ==
  IF FLt(s, F(1, 10)) THEN Blink2([c EXCEPT !.sat = F(1, 10000)]) ELSE [c EXCEPT !.sat = s]
Saturate2(c, s) ==
  IF FGt(s, One) THEN Blink2([c EXCEPT !.sat = F(9999, 10000)]) ELSE [c EXCEPT !.sat = s]
Brighten2(c, b) ==
  IF FGt(b, One)
  THEN (IF c.pwmCyclesON < 7 THEN [c EXCEPT !.bright = One, !.pwmCyclesON = @ + 1]
        ELSE Blink2([c EXCEPT !.bright = One]))
  ELSE [c EXCEPT !.bright = b]
\* DIM scaling bright in the upper tier too
Dim2BothTiers(c, b) ==
  IF c.pwmCyclesON > 0 THEN [c EXCEPT !.pwmCyclesON = @ - 1, !.bright = b]
  ELSE IF FLe(b, F(4, 1000)) THEN Blink2([c EXCEPT !.bright = 0])
  ELSE [c EXCEPT !.bright = b]

Dim2(c, b) ==
  IF c.pwmCyclesON > 0 THEN [c EXCEPT !.pwmCyclesON = @ - 1]
  ELSE IF FLe(b, F(4, 1000)) THEN Blink2([c EXCEPT !.bright = 0])
  ELSE [c EXCEPT !.bright = b]

\* v2 loop(), the switch: each case up to the RGBtoHSB that ends the RGB cases
Case2(k, c) ==
  CASE k = INIT ->
         [c EXCEPT !.hue = NextPrimary2(@), !.sat = One, !.bright = One,
                   !.pwmCyclesON = 11, !.variableHue = FALSE,
                   !.timerSet = TRUE, !.wait = @ + INIT_DELAY2]
    [] k = VAR_HUE ->
         IF c.variableHue THEN Blink2([c EXCEPT !.hueStepTime = @ * 2])
         ELSE [c EXCEPT !.variableHue = TRUE]
    [] k = NEXT_HUE -> NextHue2(c, FAdd(c.hue, 2 * One))
    [] k = PREV_HUE -> PrevHue2(c, FSub(c.hue, One))
    [] k = DESATURATE -> Desaturate2(c, FSub(c.sat, F(5, 100)))
    [] k = SATURATE -> Saturate2(c, FAdd(c.sat, F(5, 100)))
    [] k = PURE -> [c EXCEPT !.sat = One, !.bright = One, !.variableHue = FALSE]
    [] k = BRIGHTEN ->
         Brighten2(c, IF FEq(c.bright, 0) THEN F(4, 1000) ELSE FMul(c.bright, BrightUp2))
    [] k = DIM -> Dim2(c, FMul(c.bright, BrightDown2))
    [] k = INCR_RED -> EditRGB2(c, "red", Increment2(c.red))
    [] k = INCR_GREEN -> EditRGB2(c, "green", Increment2(c.green))
    [] k = INCR_BLUE -> EditRGB2(c, "blue", Increment2(c.blue))
    [] k = DECR_RED -> EditRGB2(c, "red", Decrement2(c.red))
    [] k = DECR_GREEN -> EditRGB2(c, "green", Decrement2(c.green))
    [] k = DECR_BLUE -> EditRGB2(c, "blue", Decrement2(c.blue))
    [] k = WARM_WHITE -> Preset(c, 255, 147, 41)
    [] k = BRIGHT_WHITE -> Preset(c, 255, 241, 170)
    [] k = DAYLIGHT -> Preset(c, 255, 241, 255)
    [] OTHER -> c

\* v2 loop(): the switch alone; Increment, Decrement and the presets end
\* with RGBtoHSB
Switch2(k, c, u) == IF k \in RGBKeys THEN ToHSB2(Case2(k, c), u) ELSE Case2(k, c)

\* the HSBtoRGB(hue, sat, bright, red, green, blue) that follows the switch
Derive2(c, u) ==
  [WithRGB(c, HSBtoRGB2(c.hue, c.sat, c.bright, u)) EXCEPT !.junk = @ \/ ReadsUninit(c.hue)]

\* v2 loop(): the switch, then HSBtoRGB
Handler2(k, cIn, u) == Derive2(Switch2(k, Quiet(cIn), u), u)

\* the handler of the sketch sk
Fire(sk, k, c, u) == IF sk = "v1" THEN Handler1(k, c) ELSE Handler2(k, c, u)

\* the record the v2 sketch puts in EEPROM after the switch
Record(c) == [hue |-> c.hue, sat |-> c.sat, bright |-> c.bright,
              pwmCyclesON |-> c.pwmCyclesON, variableHue |-> c.variableHue,
              hueStepTime |-> c.hueStepTime]

\* ------------------------------------------------------------ the state
VARIABLES
  sketch,        \* "v1" or "v2": which sketch runs
  hue, sat, bright, red, green, blue,
  pwmCyclesON,   \* v2 only
  variableHue,
  hueStepTime,
  nvram,         \* v2 only: the record in EEPROM
  lastKey,
  repeatCount,
  sinceKey,      \* millis() - keyTimer, kept up to IDLE_MS + 1
  sinceHueStep,  \* millis() - hueStepTimer, kept up to HUE_TICK_MS + 1
  uptime,        \* millis(), kept up to 2 * MIN_STEP_TIME + 1
  pc,            \* "frame": top of loop(); "anim": at the variable-hue section
  pwm,           \* v2 only: OCR1A, OCR1B, OCR2A, pwmCounter1, pwmCounter2
  \* history, read by the properties only
  frame,         \* the frame taken in the latest frame phase
  idle,          \* the latest frame phase began more than IDLE_MS after keyTimer
  fired,         \* key whose handler the latest frame phase ran, 0 for none
  blinks,        \* blink() calls of the latest frame phase
  was,           \* colour state and record when the latest frame phase began
  press,         \* the key press in progress: its key, repeat frames, fires
  passes,        \* frame phases so far
  seen           \* v2 only: what the overflow handlers gated and the channels
                 \* that stood when a command or animation step completed

colour == <<hue, sat, bright, red, green, blue, pwmCyclesON, variableHue, hueStepTime>>
keying == <<lastKey, repeatCount, sinceKey>>
history == <<frame, idle, fired, blinks, was, press, passes>>
\* The output-compare registers and the sub-cycle counters are followed by
\* SpecPWM and SpecGate, which interleave the overflow handlers with loop();
\* the other specifications concern the globals and leave them at rest.
timers == <<pwm, seen>>
vars == <<sketch, colour, nvram, keying, sinceHueStep, uptime, pc, history, timers>>

\* The registers and counters when loop() is entered: setup() leaves the
\* compare registers at their reset value and the counters are zero-initialised
\* statics.  No handler has run and no command has completed.
PowerUp == [OCR1A |-> 0, OCR1B |-> 0, OCR2A |-> 0, pwmCounter1 |-> 0, pwmCounter2 |-> 0]
Unseen == [gates1 |-> <<>>, gates2 |-> <<>>, held |-> {}]

IDLE_MS == 500
HUE_TICK_MS == 100
REPEAT_AFTER == 5
\* the repeat frame's value 0xffffffff, as its two 16-bit halves
ALL_ONES == 65535
\* unsigned int is 16 bits on the UNO
UINT_MOD == 65536
NEC == 1

Cur == [hue |-> hue, sat |-> sat, bright |-> bright,
        red |-> red, green |-> green, blue |-> blue,
        pwmCyclesON |-> pwmCyclesON, variableHue |-> variableHue,
        hueStepTime |-> hueStepTime]

SetColour(c) ==
  /\ hue' = c.hue /\ sat' = c.sat /\ bright' = c.bright
  /\ red' = c.red /\ green' = c.green /\ blue' = c.blue
  /\ pwmCyclesON' = c.pwmCyclesON /\ variableHue' = c.variableHue
  /\ hueStepTime' = c.hueStepTime

Cap(x, m) == IF x > m THEN m + 1 ELSE x

\* ------------------------------------------------------------- frames
\* A decoded frame: MyDecoder.protocolNum and the two halves of
\* MyDecoder.value.
NoFrame == [protocolNum |-> 0, hi |-> 0, lo |-> 0, pending |-> FALSE]
Decoded(p, h, l) == [protocolNum |-> p, hi |-> h, lo |-> l, pending |-> TRUE]
RepeatFrame == Decoded(NEC, ALL_ONES, ALL_ONES)
\* a key frame of the Adafruit Mini Remote: 0x00FDxxxx
KeyFrame(k) == Decoded(NEC, 253, k)
ZeroFrame == Decoded(NEC, 0, 0)
\* a frame of another protocol (2 is Sony in IRLib2) carrying a key's bits
OtherProtocol == [KeyFrame(DIM) EXCEPT !.protocolNum = 2]
\* the NECx decoder of IRLib_P07_NECx.h, which both sketches include
NECX == 7
\* a frame of that protocol whose value is 0xffffffff
OtherRepeat == [RepeatFrame EXCEPT !.protocolNum = NECX]
\* an NEC code the key table does not list
UNLISTED == INIT + 1
UnknownFrame == KeyFrame(UNLISTED)

IsRepeat(f) == f.pending /\ f.hi = ALL_ONES /\ f.lo = ALL_ONES
IsConcrete(f) == f.pending /\ f.protocolNum = NEC /\ ~(f.hi = 0 /\ f.lo = 0) /\ ~IsRepeat(f)

\* ------------------------------------------------- the key state machine
\* a loop() whose idle check forgets the stored key but keeps the count
IdleCheckKeepsCount(ks) ==
  IF ks.sinceKey > IDLE_MS THEN [ks EXCEPT !.lastKey = 0] ELSE ks

\* a loop() whose idle check restarts the count but keeps the stored key
IdleCheckKeepsKey(ks) ==
  IF ks.sinceKey > IDLE_MS THEN [ks EXCEPT !.repeatCount = 0] ELSE ks

\* loop(): if (millis() - keyTimer > 500) { repeatCount = 0; lastKey = 0; }
\* ks is the record of lastKey, repeatCount and sinceKey
IdleCheck(ks) ==
  IF ks.sinceKey > IDLE_MS THEN [ks EXCEPT !.repeatCount = 0, !.lastKey = 0] ELSE ks

\* loop(): if (repeatCount++ > 5) MyDecoder.value = lastKey
Again(ks) == ks.repeatCount > REPEAT_AFTER

\* loop(): the repeat-frame branch.  Returns the key state and the two halves
\* of MyDecoder.value as the validity test will see them.
Receive(ks, f) ==
  IF IsRepeat(f)
  THEN [ks |-> [ks EXCEPT !.sinceKey = 0, !.repeatCount = (@ + 1) % UINT_MOD],
        hi |-> IF Again(ks) THEN 0 ELSE f.hi,
        lo |-> IF Again(ks) THEN ks.lastKey ELSE f.lo]
  ELSE [ks |-> ks, hi |-> f.hi, lo |-> f.lo]

\* loop(): protocolNum == 1 && value != 0x00000000 && value != 0xffffffff
Valid(f, r) ==
  /\ f.pending
  /\ f.protocolNum = NEC
  /\ ~(r.hi = 0 /\ r.lo = 0)
  /\ ~(r.hi = ALL_ONES /\ r.lo = ALL_ONES)

\* loop(): the body of the validity test: lastKey and keyTimer, the switch,
\* the display
Handled(sk, c, r, u) ==
  [c |-> Fire(sk, r.lo, c, u), ks |-> [r.ks EXCEPT !.lastKey = r.lo, !.sinceKey = 0],
   valid |-> TRUE, code |-> r.lo]

Decode(sk, c, f, r, u) ==
  IF Valid(f, r) THEN Handled(sk, c, r, u)
  ELSE [c |-> Quiet(c), ks |-> r.ks, valid |-> FALSE, code |-> r.lo]

\* the outcome of the frame phase of one pass of loop(): the idle check,
\* then, if a frame is pending, its decoding and the key handler
FrameOutcome(sk, c, ks, f, u) ==
  Decode(sk, c, f,
         IF f.pending THEN Receive(IdleCheck(ks), f)
         ELSE [ks |-> IdleCheck(ks), hi |-> 0, lo |-> 0],
         u)

NoPress == [key |-> 0, reps |-> 0, fires |-> 0, fresh |-> FALSE]

\* history: the press in progress after frame f, given whether a handler ran:
\* its key, the repeat frames that followed the key frame within 500 ms of
\* one another, the handler runs so far, and whether the key frame came after
\* an idle gap
NextPress(f, gap, ran) ==
  IF IsConcrete(f)
  THEN [key |-> f.lo, reps |-> 0, fires |-> IF ran THEN 1 ELSE 0, fresh |-> gap]
  ELSE IF IsRepeat(f)
  THEN (IF gap \/ press.key = 0 THEN NoPress
        ELSE [press EXCEPT !.reps = @ + 1, !.fires = @ + (IF ran THEN 1 ELSE 0)])
  ELSE press

\* the timers after a frame phase that took dt ms to come and wait ms in delay()
Clocks(dt, o, t) ==
  /\ sinceKey' = Cap(o.ks.sinceKey + o.c.wait, IDLE_MS)
  /\ sinceHueStep' =
       Cap((IF o.c.timerSet
            THEN (IF t < MIN_STEP_TIME THEN HUE_TICK_MS + 1
                  ELSE Cap(t - MIN_STEP_TIME, HUE_TICK_MS))
            ELSE Cap(sinceHueStep + dt, HUE_TICK_MS)) + o.c.wait, HUE_TICK_MS)
  /\ uptime' = Cap(t + o.c.wait, 2 * MIN_STEP_TIME)

\* the globals, the EEPROM record and the history after a frame phase
Outcome(f, o, gap, ran, n) ==
  /\ SetColour(o.c)
  /\ nvram' = IF o.valid /\ sketch = "v2" THEN Record(o.c) ELSE nvram
  /\ lastKey' = o.ks.lastKey
  /\ repeatCount' = o.ks.repeatCount
  /\ frame' = f
  /\ idle' = gap
  /\ fired' = IF ran THEN o.code ELSE 0
  /\ blinks' = o.c.blinks
  /\ was' = [c |-> Cur, nvram |-> nvram, lastKey |-> lastKey, repeatCount |-> repeatCount]
  /\ press' = NextPress(f, gap, ran)
  /\ passes' = n

\* One frame phase: dt ms after the previous pass, with frame f pending (or
\* NoFrame); n is the new count of passes.  The uninitialised locals of the
\* v2 conversions are drawn when a call reads them.
Frame(dt, f, n) ==
  /\ pc = "frame"
  /\ \E ks \in {[lastKey |-> lastKey, repeatCount |-> repeatCount,
                 sinceKey |-> Cap(sinceKey + dt, IDLE_MS)]} :
       \E o0 \in {FrameOutcome(sketch, Cur, ks, f, NoJunk)} :
         \E u \in (IF o0.c.junk THEN Uninit ELSE {NoJunk}) :
           \E o \in {IF u = NoJunk THEN o0 ELSE FrameOutcome(sketch, Cur, ks, f, u)} :
             /\ Clocks(dt, o, Cap(uptime + dt, 2 * MIN_STEP_TIME))
             /\ Outcome(f, o, ks.sinceKey > IDLE_MS, o.valid /\ o.code \in KnownKeys, n)
  /\ pc' = "anim"
  /\ UNCHANGED sketch

FramePhase(dt, f, n) == Frame(dt, f, n) /\ UNCHANGED timers

\* ------------------------------------------------ the variable-hue section
\* the step without the wrap
Wrap2Kept(h) == h

\* v2: hue += 255. / HUE_STEPS; if (hue > 255.0) hue = 0.0
Wrap2(h) == IF FGt(h, 255 * One) THEN 0 ELSE h
StepHue2(h) == Wrap2(FAdd(h, F(255, HUE_STEPS)))

\* v1: if (millis() - hueStepTimer > 100); v2: ... && variableHue == true
TickDue == sinceHueStep > HUE_TICK_MS /\ (sketch = "v1" \/ variableHue)

\* the hue stepped and RGB derived again
Vary(sk, c, u) ==
  IF sk = "v1" THEN ToRGB1([c EXCEPT !.hue = StepHue1(@)])
  ELSE Derive2([c EXCEPT !.hue = StepHue2(@)], u)

\* the animation section when its condition holds: the timer restarts and, if
\* variableHue, the hue steps and RGB is derived again
VaryHue ==
  /\ pc = "anim"
  /\ TickDue
  /\ sinceHueStep' = 0
  /\ IF variableHue
     THEN \E u \in (IF sketch = "v2" /\ ReadsUninit(StepHue2(hue)) THEN Uninit
                    ELSE {NoJunk}) :
            \E c \in {Vary(sketch, Quiet(Cur), u)} : SetColour(c)
     ELSE UNCHANGED colour
  /\ pc' = "frame"
  /\ UNCHANGED <<sketch, nvram, keying, uptime, history, timers>>

\* the animation section when its condition fails
SkipHue ==
  /\ pc = "anim"
  /\ ~TickDue
  /\ pc' = "frame"
  /\ UNCHANGED <<sketch, colour, nvram, keying, sinceHueStep, uptime, history, timers>>

\* ------------------------------------------------------------- start-up
Plain(c) == [hue |-> c.hue, sat |-> c.sat, bright |-> c.bright,
             red |-> c.red, green |-> c.green, blue |-> c.blue,
             pwmCyclesON |-> c.pwmCyclesON, variableHue |-> c.variableHue,
             hueStepTime |-> c.hueStepTime]

\* v2 struct state: the member initialisers (hueStepTime has none; the
\* record is taken to hold the v1 start value)
DefaultRecord ==
  [hue |-> 0, sat |-> One, bright |-> F(1, 3), pwmCyclesON |-> 7,
   variableHue |-> FALSE, hueStepTime |-> MIN_STEP_TIME]

\* setup() without pwmCyclesON = nvram.pwmCyclesON: the level of the declaration
GlobalsAllCycles(sk, rec) ==
  [hue |-> rec.hue, sat |-> rec.sat, bright |-> rec.bright,
   red |-> 0, green |-> 0, blue |-> 0,
   pwmCyclesON |-> IF sk = "v1" THEN 0 ELSE 7,
   variableHue |-> rec.variableHue, hueStepTime |-> rec.hueStepTime,
   blinks |-> 0, wait |-> 0, timerSet |-> FALSE, junk |-> FALSE]

\* the globals as setup() has them before its call of HSBtoRGB.  v1: the
\* initialisers (saturated blue at bright 1/3; the v1 sketch has no
\* pwmCyclesON, the field stays 0).  v2: EEPROM.get(0, nvram), rec
Globals(sk, rec) ==
  [hue |-> rec.hue, sat |-> rec.sat, bright |-> rec.bright,
   red |-> 0, green |-> 0, blue |-> 0,
   pwmCyclesON |-> IF sk = "v1" THEN 0 ELSE rec.pwmCyclesON,
   variableHue |-> rec.variableHue, hueStepTime |-> rec.hueStepTime,
   blinks |-> 0, wait |-> 0, timerSet |-> FALSE, junk |-> FALSE]

\* setup(): HSBtoRGB(hue, sat, bright, red, green, blue)
Setup(sk, rec, u) ==
  Plain(IF sk = "v1" THEN ToRGB1(Globals(sk, rec)) ELSE Derive2(Globals(sk, rec), u))

\* fires of a held key worked out in one run
MaxRun == 8

\* the colour state after key k has fired n times from c, n up to MaxRun
RECURSIVE Held(_, _, _, _), HeldOn(_, _, _, _, _), Runs(_, _, _, _), RunsOn(_, _, _, _)
Held(sk, k, n, c) ==
  IF n = 0 THEN c ELSE HeldOn(sk, k, n, c, Plain(Fire(sk, k, c, NoJunk)))
\* a press that changes nothing: so will every later one
HeldOn(sk, k, n, c, d) == IF d = c THEN c ELSE Held(sk, k, n - 1, d)

\* the same for any n, run by run
Part(n) == IF n > MaxRun THEN MaxRun ELSE n
Runs(sk, k, n, c) == IF n = 0 THEN c ELSE RunsOn(sk, k, n, Held(sk, k, Part(n), c))
RunsOn(sk, k, n, d) == IF d = d THEN Runs(sk, k, n - Part(n), d) ELSE d

\* ---------------------------------------------------------------- bounds
\* frame phases explored from an initial state of Spec
MaxPasses == 2
\* fires of the key held in an earlier session
MaxHeld == 64
\* repeat frames counted in SpecKeys
MaxRepeats == 9

\* ms between two passes of loop() that the model distinguishes: the 108 ms
\* between two frames of a held key, and an idle gap
Gaps == {108, IDLE_MS + 1}

\* what happened since power-up (v1) or in the session that wrote the
\* EEPROM record (v2): nothing, or key k fired n times
Sessions ==
  {<<PURE, 0>>, <<VAR_HUE, 1>>}
  \cup {<<k, MaxHeld>> : k \in {DIM, BRIGHTEN, DESATURATE, INCR_RED, DECR_BLUE}}

\* power-up.  v1 comes up as setup() leaves it and then runs the session p;
\* v2 comes up from the EEPROM record that the session p left.
Boot(sk, p) ==
  /\ sketch = sk
  /\ \E b \in {Runs(sk, p[1], p[2], Setup(sk, DefaultRecord, NoJunk))} :
       \E u \in (IF sk = "v2" /\ ReadsUninit(b.hue) THEN Uninit ELSE {NoJunk}) :
         \E c \in {IF sk = "v1" THEN b ELSE Setup(sk, Record(b), u)} :
           /\ hue = c.hue /\ sat = c.sat /\ bright = c.bright
           /\ red = c.red /\ green = c.green /\ blue = c.blue
           /\ pwmCyclesON = c.pwmCyclesON /\ variableHue = c.variableHue
           /\ hueStepTime = c.hueStepTime
           /\ nvram = Record(c)
           /\ was = [c |-> c, nvram |-> Record(c), lastKey |-> 0, repeatCount |-> 0]
  /\ lastKey = 0
  /\ repeatCount = 0
  \* v1 after an earlier session: the loop has been idle since
  /\ sinceKey = IF sk = "v1" /\ p[2] > 0 THEN IDLE_MS + 1 ELSE 0
  /\ sinceHueStep = 0
  /\ uptime = IF sk = "v1" /\ p[2] > 0 THEN 2 * MIN_STEP_TIME + 1 ELSE 0
  /\ pc = "frame"
  /\ frame = NoFrame
  /\ idle = FALSE
  /\ fired = 0
  /\ blinks = 0
  /\ press = NoPress
  /\ passes = 0
  /\ pwm = PowerUp /\ seen = Unseen

Init == \E sk \in {"v1", "v2"}, p \in Sessions : Boot(sk, p)

Silence(dt) == passes < MaxPasses /\ FramePhase(dt, NoFrame, passes + 1)
Repeat(dt) == passes < MaxPasses /\ FramePhase(dt, RepeatFrame, passes + 1)
Key(dt, k) == passes < MaxPasses /\ FramePhase(dt, KeyFrame(k), passes + 1)
Noise(dt, f) == passes < MaxPasses /\ FramePhase(dt, f, passes + 1)

Next ==
  \/ \E dt \in Gaps : Silence(dt)
  \/ \E dt \in Gaps : Repeat(dt)
  \/ \E dt \in Gaps, k \in KnownKeys : Key(dt, k)
  \/ \E dt \in Gaps, f \in {ZeroFrame, OtherProtocol, OtherRepeat, UnknownFrame} : Noise(dt, f)
  \/ VaryHue
  \/ SkipHue

Spec == Init /\ [][Next]_vars

\* ------------------------------------------- the key state machine, deeper
\* Two keys whose handlers leave few colour states, pressed and held in any
\* order with any of the gaps, from power-up.
HeldKeys == {PURE, WARM_WHITE}

InitKeys == \E sk \in {"v1", "v2"} : Boot(sk, <<PURE, 0>>)

Wait(dt) == FramePhase(dt, NoFrame, passes)
Hold(dt) ==
  /\ repeatCount < MaxRepeats
  /\ press.reps < MaxRepeats
  /\ FramePhase(dt, RepeatFrame, passes)
Press(dt, k) == FramePhase(dt, KeyFrame(k), passes)
Stray(dt, f) == FramePhase(dt, f, passes)

NextKeys ==
  \/ \E dt \in Gaps : Wait(dt)
  \/ \E dt \in Gaps : Hold(dt)
  \/ \E dt \in Gaps, k \in HeldKeys : Press(dt, k)
  \/ \E dt \in Gaps, f \in {ZeroFrame, OtherProtocol} : Stray(dt, f)
  \/ VaryHue
  \/ SkipHue

SpecKeys == InitKeys /\ [][NextKeys]_vars

\* --------------------------------------------- the conversions on their own
\* RGBtoHSB and HSBtoRGB called on the globals, from arguments drawn from
\* small sets: the corners and the middle of each range, equal channels and
\* all-zero channels among them.
MaxCalls == 2

HuesConv(sk) ==
  IF sk = "v1" THEN {0, F(1, 4), F(2, 3)} ELSE {F(1, 10), 100 * One, 200 * One}
LevelsConv == {0, 100 * One, MAX_RGB}
SatsConv == {0, F(1, 2), One}
BrightsConv == {F(1, 3), One}

InitConv ==
  /\ sketch \in {"v1", "v2"}
  /\ hue \in HuesConv(sketch)
  /\ sat \in SatsConv
  /\ bright \in BrightsConv
  /\ red \in LevelsConv /\ green \in LevelsConv /\ blue \in LevelsConv
  /\ pwmCyclesON = IF sketch = "v1" THEN 0 ELSE 7
  /\ variableHue = FALSE
  /\ hueStepTime = MIN_STEP_TIME
  /\ nvram = Record(Cur)
  /\ was = [c |-> Cur, nvram |-> Record(Cur), lastKey |-> 0, repeatCount |-> 0]
  /\ lastKey = 0 /\ repeatCount = 0
  /\ sinceKey = 0 /\ sinceHueStep = 0 /\ uptime = 0
  /\ pc = "args"
  /\ frame = NoFrame /\ idle = FALSE /\ fired = 0 /\ blinks = 0
  /\ press = NoPress
  /\ passes = 0
  /\ pwm = PowerUp /\ seen = Unseen

\* what a call leaves alone, and the history of the call
Called(name) ==
  /\ was' = [c |-> Cur, nvram |-> nvram, lastKey |-> lastKey, repeatCount |-> repeatCount]
  /\ pc' = name
  /\ passes' = passes + 1
  /\ UNCHANGED <<sketch, nvram, keying, sinceHueStep, uptime,
                 frame, idle, fired, blinks, press, timers>>

\* RGBtoHSB(hue, sat, bright, red, green, blue)
CallRGBtoHSB ==
  /\ passes < MaxCalls
  /\ \E c0 \in {IF sketch = "v1" THEN ToHSB1(Quiet(Cur)) ELSE ToHSB2(Quiet(Cur), NoJunk)} :
       \E u \in (IF c0.junk THEN Uninit ELSE {NoJunk}) :
         \E c \in {IF u = NoJunk THEN c0 ELSE ToHSB2(Quiet(Cur), u)} : SetColour(c)
  /\ Called("RGBtoHSB")

\* HSBtoRGB(hue, sat, bright, red, green, blue)
CallHSBtoRGB ==
  /\ passes < MaxCalls
  /\ \E u \in (IF sketch = "v2" /\ ReadsUninit(hue) THEN Uninit ELSE {NoJunk}) :
       \E c \in {IF sketch = "v1" THEN ToRGB1(Quiet(Cur)) ELSE Derive2(Quiet(Cur), u)} :
         SetColour(c)
  /\ Called("HSBtoRGB")

NextConv == CallRGBtoHSB \/ CallHSBtoRGB

SpecConv == InitConv /\ [][NextConv]_vars

\* ------------------------------------------------ properties: the key logic
\* The history variables describe the frame phase that has just run while
\* pc = "anim"; press describes the press in progress at any time.

\* C1 (single press): a key frame followed by fewer than 5 repeat frames has
\* run the key's handler exactly once.
C1_SinglePressFiresOnce ==
  (press.key \in KnownKeys /\ press.reps < REPEAT_AFTER) => press.fires = 1

\* C2 (held key): after a key frame the first 5 repeat frames run nothing and
\* the 6th and every later one runs the handler once, so that n > 5 repeat
\* frames give 1 + (n - 5) runs.  Stated for a press that starts after an
\* idle gap, where the count of repeat frames starts at 0.
C2_HeldKeyFires ==
  (press.fresh /\ press.key \in KnownKeys)
    => press.fires = IF press.reps > REPEAT_AFTER
                     THEN 1 + (press.reps - REPEAT_AFTER) ELSE 1

\* C3: every key frame that fires leaves repeatCount at 0.
C3_KeyFrameResetsCount ==
  (pc = "anim" /\ IsConcrete(frame) /\ fired # 0) => repeatCount = 0

\* C4 (idle reset): when more than 500 ms passed without a frame, the pass
\* handles its frame from lastKey = 0 and repeatCount = 0, whatever they were:
\* a repeat frame repeats nothing and counts as the first; a key frame, even
\* of the key that was repeating, fires once; and the press it starts fires
\* only once through its first 5 repeat frames.
C4_IdleReset ==
  /\ (pc = "anim" /\ idle)
       => /\ repeatCount = IF IsRepeat(frame) THEN 1 ELSE 0
          /\ lastKey = IF IsConcrete(frame) THEN frame.lo ELSE 0
          /\ fired = IF IsConcrete(frame) /\ frame.lo \in KnownKeys THEN frame.lo ELSE 0
  /\ (pc = "anim" /\ idle /\ IsConcrete(frame) /\ frame.lo \in KnownKeys)
       => press = [key |-> frame.lo, reps |-> 0, fires |-> 1, fresh |-> TRUE]
  /\ (press.fresh /\ press.key \in KnownKeys /\ press.reps <= REPEAT_AFTER)
       => press.fires = 1

\* C4's case: the key that was repeating is pressed again after an idle gap
C4_RepressedAfterIdle ==
  /\ pc = "anim" /\ idle
  /\ IsConcrete(frame)
  /\ was.lastKey = frame.lo
  /\ was.repeatCount > REPEAT_AFTER + 1
  /\ fired = frame.lo
  /\ repeatCount = 0

\* ------------------------------------------------ properties: the handlers
\* C5 (limit policy), for Dim: when Dim fires with the brightness at its
\* floor and leaves it there, the handler blinks.  The floor is MIN_BRIGHT in
\* v1, and coarse level 0 with bright 0 in v2.
C5_DimAtFloorBlinks ==
  (/\ pc = "anim" /\ fired = DIM
   /\ was.c.bright = (IF sketch = "v1" THEN MIN_BRIGHT ELSE 0)
   /\ (sketch = "v2" => was.c.pwmCyclesON = 0)
   /\ bright = was.c.bright /\ pwmCyclesON = was.c.pwmCyclesON)
    => blinks > 0

\* C6: after an Increase or Decrease of a channel, a reference-colour preset
\* or PureHue has fired, variableHue is false.
C6_EditCancelsVariableHue ==
  (pc = "anim" /\ fired \in (IncrKeys \cup DecrKeys \cup PresetKeys \cup {PURE}))
    => ~variableHue

\* C7 (unknown code): an NEC code that the key table does not list changes
\* none of the colour globals nor the EEPROM record, and blinks nothing.
C7_UnknownCodeIgnored ==
  (pc = "anim" /\ frame = UnknownFrame)
    => (Cur = was.c /\ nvram = was.nvram /\ blinks = 0)

\* C8 (hue at the singularities): RGBtoHSB called with three equal channels
\* leaves hue as the caller had it, a number.
C8_HueKeptAtSingularity ==
  (pc = "RGBtoHSB" /\ was.c.red = was.c.green /\ was.c.green = was.c.blue)
    => (hue = was.c.hue /\ IsFinite(hue))

\* C9: an Increase or Decrease of one channel leaves the other two stored
\* channels as they were.
C9_OtherChannelsKept ==
  pc = "anim"
    => /\ fired \in {INCR_RED, DECR_RED} => (green = was.c.green /\ blue = was.c.blue)
       /\ fired \in {INCR_GREEN, DECR_GREEN} => (red = was.c.red /\ blue = was.c.blue)
       /\ fired \in {INCR_BLUE, DECR_BLUE} => (red = was.c.red /\ green = was.c.green)

\* C10 (warm white): when the warm-white command has been handled the stored
\* channels are (255, 147, 41) and sat lies strictly between 0 and 1.
C10_WarmWhiteStored ==
  (pc = "anim" /\ fired = WARM_WHITE)
    => /\ red = 255 * One /\ green = 147 * One /\ blue = 41 * One
       /\ FGt(sat, 0) /\ FLt(sat, One)

\* C11 (coarse-level range, v2): pwmCyclesON stays in 0 .. 7 after any
\* sequence of commands, Init among them.
C11_CoarseLevelInRange ==
  sketch = "v2" => pwmCyclesON \in 0..7

\* C12 (PureHue): after the command sat is 1, hue is as it was, the animation
\* is off and the strip is at the most brightness the hue allows: in v1 the
\* largest channel is full on, in v2 bright is 1 and all eight sub-cycles are
\* enabled.
C12_PureHueFullBrightness ==
  (pc = "anim" /\ fired = PURE)
    => /\ sat = One /\ hue = was.c.hue /\ ~variableHue
       /\ sketch = "v1" => FGe(Max3(red, green, blue), F(2545, 10))
       /\ sketch = "v2" => (bright = One /\ pwmCyclesON >= 7)

\* ------------------------------------------------------ the v2 PWM outputs
\* int(x): the integer part of a finite float
Trunc(x) == IF x < 0 THEN 0 - ((0 - x) \div Scale) ELSE x \div Scale
\* byte(n): the low 8 bits
Byte(n) == n % 256
\* ISR: OCR1A = byte(int(red)), and so green and blue
Duty2(x) == Byte(Trunc(x))
\* ISR: pwmCounter &= 0x0007; if (pwmCounter <= pwmCyclesON): the PWM cycles
\* out of eight that carry the duty; the int is compared as an unsigned int
Cycles2(n) == Cardinality({k \in 0..7 : k <= n % UINT_MOD})

\* ------------------------------------------------------- v2 from a record
\* power-up of the v2 sketch with rec in EEPROM: setup() takes its fields as
\* the globals and derives RGB
Restart(rec) ==
  /\ sketch = "v2"
  /\ \E u \in (IF ReadsUninit(rec.hue) THEN Uninit ELSE {NoJunk}) :
       \E c \in {Setup("v2", rec, u)} :
         /\ hue = c.hue /\ sat = c.sat /\ bright = c.bright
         /\ red = c.red /\ green = c.green /\ blue = c.blue
         /\ pwmCyclesON = c.pwmCyclesON /\ variableHue = c.variableHue
         /\ hueStepTime = c.hueStepTime
         /\ was = [c |-> c, nvram |-> rec, lastKey |-> 0, repeatCount |-> 0]
  /\ nvram = rec
  /\ lastKey = 0 /\ repeatCount = 0
  /\ sinceKey = 0 /\ sinceHueStep = 0 /\ uptime = 0
  /\ pc = "frame"
  /\ frame = NoFrame /\ idle = FALSE /\ fired = 0 /\ blinks = 0
  /\ press = NoPress
  /\ passes = 0
  /\ pwm = PowerUp /\ seen = Unseen

\* ------------------------------------------ v2: Brighten from the minimum
\* The Brighten key pressed again and again, each press after an idle gap,
\* from bright = 0 and pwmCyclesON = 0 at a hue of each part of the chart.
MaxBrightens == 26
HuesBright == {F(1, 10), 80 * One, 140 * One, 200 * One}
SatsBright == {F(1, 2), One}

InitBright ==
  \E h \in HuesBright, s \in SatsBright :
    Restart([hue |-> h, sat |-> s, bright |-> 0, pwmCyclesON |-> 0,
             variableHue |-> FALSE, hueStepTime |-> MIN_STEP_TIME])

BrightenKey ==
  /\ passes < MaxBrightens
  /\ FramePhase(IDLE_MS + 1, KeyFrame(BRIGHTEN), passes + 1)

NextBright == BrightenKey \/ SkipHue

SpecBright == InitBright /\ [][NextBright]_vars

\* C13 (monotonic brightness, v2): from bright = 0 and pwmCyclesON = 0 no
\* Brighten lowers a channel's rendered level (enabled cycles times duty);
\* 23 Brighten commands reach bright = 1 with pwmCyclesON = 7; from there a
\* Brighten blinks and changes neither the globals nor the record.
C13_BrightenMonotonic ==
  /\ (pc = "anim" /\ fired = BRIGHTEN)
       => /\ Cycles2(pwmCyclesON) * Duty2(red)
               >= Cycles2(was.c.pwmCyclesON) * Duty2(was.c.red)
          /\ Cycles2(pwmCyclesON) * Duty2(green)
               >= Cycles2(was.c.pwmCyclesON) * Duty2(was.c.green)
          /\ Cycles2(pwmCyclesON) * Duty2(blue)
               >= Cycles2(was.c.pwmCyclesON) * Duty2(was.c.blue)
  /\ passes >= 23 => (bright = One /\ pwmCyclesON = 7)
  /\ (pc = "anim" /\ fired = BRIGHTEN /\ was.c.bright = One /\ was.c.pwmCyclesON = 7)
       => (blinks > 0 /\ Cur = was.c /\ nvram = was.nvram)


\* ------------------------------- both sketches: sat and bright, there and back
\* From a hue reached with NEXT_HUE: Desaturate pressed MaxSatKeys times,
\* Saturate as often, then Dim and Brighten MaxDimKeys times each, every
\* press after an idle gap.
MaxSatKeys == 52
MaxDimKeys == 4
HueStarts == {0, 3, 20}

\* the key of the press that follows n presses
TouchKey(n) ==
  IF n < MaxSatKeys THEN DESATURATE
  ELSE IF n < 2 * MaxSatKeys THEN SATURATE
  ELSE IF n < 2 * MaxSatKeys + MaxDimKeys THEN DIM
  ELSE BRIGHTEN

InitTouch == \E sk \in {"v1", "v2"}, n \in HueStarts : Boot(sk, <<NEXT_HUE, n>>)

Touch ==
  /\ passes < 2 * MaxSatKeys + 2 * MaxDimKeys
  /\ FramePhase(IDLE_MS + 1, KeyFrame(TouchKey(passes)), passes + 1)

NextTouch == Touch \/ VaryHue \/ SkipHue

SpecTouch == InitTouch /\ [][NextTouch]_vars

\* C14 (hue kept): no Desaturate, Saturate, Dim or Brighten command, and no
\* pass of loop() between them, changes the stored hue, so sat driven to its
\* floor and back to the top ends at exactly the hue held at the start.
C14_HueKept == [][hue' = hue]_vars

\* the last Saturate of the way back from the floor: sat is at its top,
\* blink() has run, and the hue is one that NEXT_HUE had set
C14_BackAtFullSat ==
  /\ pc = "anim" /\ passes = 2 * MaxSatKeys /\ fired = SATURATE
  /\ blinks > 0 /\ FGe(sat, F(9999, 10000)) /\ hue # 0
  /\ bright = F(1, 3)


\* ------------------------------------------------------ the v1 PWM outputs
\* round(x): the nearest integer, halves away from zero
Round(x) == IF x < 0 THEN 0 - ((Scale \div 2 - x) \div Scale) ELSE (x + Scale \div 2) \div Scale
\* the int that byte() is given for a channel: round(x) in DisplayRGB (v1),
\* int(x) in the timer ISRs (v2)
DutyInt(sk, x) == IF sk = "v1" THEN Round(x) ELSE Trunc(x)

\* what the arithmetic of this model may add to a channel that the sketch
\* scales up to MAX_RGB
ChannelEps == F(1, 10)

\* C15 (channel bounds, both sketches): after a command handler or an
\* animation step red, green and blue lie in [0, 255], and the integer that
\* byte() turns into the duty is in 0 .. 255, so that byte() wraps nothing.
C15_ChannelsInRange ==
  \A x \in {red, green, blue} :
    /\ FGe(x, 0) /\ FLe(x, MAX_RGB + ChannelEps)
    /\ DutyInt(sketch, x) \in 0..255


\* ------------------------------------------------ the conversions in turn
\* HSBtoRGB, RGBtoHSB and HSBtoRGB again on the globals, from (hue, sat,
\* bright) drawn from small sets: the primaries, the secondaries and hues
\* between them, sat and bright from low to 1.  nvram keeps the arguments.
MaxTrip == 3
HuesTrip(sk) ==
  IF sk = "v1" THEN {0, F(1, 10), F(1, 6), F(1, 3), F(1, 2), F(2, 3), F(9, 10)}
  ELSE {0, 16 * One, 48 * One, 80 * One, 112 * One, 144 * One, 200 * One}
SatsTrip == {F(1, 10), F(1, 2), One}
BrightsTrip == {F(1, 10), F(1, 3), F(2, 3), One}

InitTrip ==
  /\ sketch \in {"v1", "v2"}
  /\ hue \in HuesTrip(sketch)
  /\ sat \in SatsTrip
  /\ bright \in BrightsTrip
  /\ red = 0 /\ green = 0 /\ blue = 0
  /\ pwmCyclesON = IF sketch = "v1" THEN 0 ELSE 7
  /\ variableHue = FALSE
  /\ hueStepTime = MIN_STEP_TIME
  /\ nvram = Record(Cur)
  /\ was = [c |-> Cur, nvram |-> Record(Cur), lastKey |-> 0, repeatCount |-> 0]
  /\ lastKey = 0 /\ repeatCount = 0
  /\ sinceKey = 0 /\ sinceHueStep = 0 /\ uptime = 0
  /\ pc = "args"
  /\ frame = NoFrame /\ idle = FALSE /\ fired = 0 /\ blinks = 0
  /\ press = NoPress
  /\ passes = 0
  /\ pwm = PowerUp /\ seen = Unseen

\* HSBtoRGB(hue, sat, bright, red, green, blue), first and third call
TripHSBtoRGB ==
  /\ pc \in {"args", "RGBtoHSB"} /\ passes < MaxTrip
  /\ \E u \in (IF sketch = "v2" /\ ReadsUninit(hue) THEN Uninit ELSE {NoJunk}) :
       \E c \in {IF sketch = "v1" THEN ToRGB1(Quiet(Cur)) ELSE Derive2(Quiet(Cur), u)} :
         SetColour(c)
  /\ Called("HSBtoRGB")

\* RGBtoHSB(hue, sat, bright, red, green, blue), second call
TripRGBtoHSB ==
  /\ pc = "HSBtoRGB" /\ passes < MaxTrip - 1
  /\ \E c0 \in {IF sketch = "v1" THEN ToHSB1(Quiet(Cur)) ELSE ToHSB2(Quiet(Cur), NoJunk)} :
       \E u \in (IF c0.junk THEN Uninit ELSE {NoJunk}) :
         \E c \in {IF u = NoJunk THEN c0 ELSE ToHSB2(Quiet(Cur), u)} : SetColour(c)
  /\ Called("RGBtoHSB")

NextTrip == TripHSBtoRGB \/ TripRGBtoHSB

SpecTrip == InitTrip /\ [][NextTrip]_vars

\* a and b agree within 1e-2 of b
Near(a, b) == Abs(a - b) * 100 <= Abs(b)

\* C16 as stated (HSB round trip, v1): RGBtoHSB after HSBtoRGB(hue, sat,
\* bright) returns the hue, sat and bright that HSBtoRGB was called with,
\* each within 1e-2 relative.
C16_HSBRoundTrip ==
  (sketch = "v1" /\ pc = "RGBtoHSB")
    => /\ Near(hue, nvram.hue) /\ Near(sat, nvram.sat)
       /\ Near(bright, nvram.bright)

\* C16 amended: RGBtoHSB returns the hue and sat of the call, and the bright
\* that HSBtoRGB left in its by-reference argument: the bright of the call,
\* or the highest that the largest primary allows when that is lower.
C16_HSBRoundTripLimited ==
  (sketch = "v1" /\ pc = "RGBtoHSB")
    => /\ Near(hue, nvram.hue) /\ Near(sat, nvram.sat)
       /\ Near(bright, was.c.bright)
       /\ FLe(was.c.bright, nvram.bright)
       /\ was.c.bright # nvram.bright
            => Near(Max3(red, green, blue), MAX_RGB)

\* a round trip where HSBtoRGB limited bright
C16_TripWithLimitedBright ==
  /\ sketch = "v1" /\ pc = "RGBtoHSB" /\ hue # 0
  /\ nvram.bright = One /\ FLt(bright, F(1, 2))


\* a and b agree within one of the 255 levels
Level(a, b) == IsFinite(a) /\ IsFinite(b) /\ Abs(a - b) <= One

\* C17 (RGB round trip, each sketch's own pair): HSBtoRGB, RGBtoHSB and
\* HSBtoRGB again, from sat > 0 and bright > 0, give the red, green, blue of
\* the first HSBtoRGB, each within one level.
C17_RGBRoundTrip ==
  (pc = "HSBtoRGB" /\ passes = MaxTrip)
    => /\ Level(red, was.c.red) /\ Level(green, was.c.green)
       /\ Level(blue, was.c.blue)


\* how many of red, green, blue are 0
Zeros ==
  (IF red = 0 THEN 1 ELSE 0) + (IF green = 0 THEN 1 ELSE 0) + (IF blue = 0 THEN 1 ELSE 0)
\* the state after HSBtoRGB(hue, 1, 1/3) of the v1 sketch
PureCall ==
  /\ sketch = "v1" /\ pc = "HSBtoRGB" /\ passes = 1
  /\ nvram.sat = One /\ nvram.bright = F(1, 3)

\* C18 as stated (pure hue circle, v1): HSBtoRGB(hue, 1, 1/3) gives exactly
\* one channel equal to 0 and the other two sum to 255.
C18_PureHueCircle ==
  PureCall => (Zeros = 1 /\ Level(FAdd(FAdd(red, green), blue), MAX_RGB))

\* C18 amended: at least one channel is 0 and the three sum to 255; exactly
\* one is 0 except at the primaries (hue 0, 1/3, 2/3), where two are 0 and
\* the third is 255.
C18_PureHueCircleWithPrimaries ==
  PureCall
    => /\ Level(FAdd(FAdd(red, green), blue), MAX_RGB)
       /\ Zeros = (IF hue \in {0, F(1, 3), F(2, 3)} THEN 2 ELSE 1)
       /\ bright = F(1, 3)

\* a secondary (yellow) of the circle
C18_YellowOnCircle ==
  PureCall /\ hue = F(1, 2) /\ blue = 0 /\ red = green /\ red # 0


\* ------------------------------------------------ v2: power off and on
\* The v2 sketch with keys pressed after idle gaps, and the power cycled when
\* a pass of loop() has handled its frame: setup() runs again on the record
\* that is in EEPROM.  The history keeps the frame phase before the restart.
SessionsRestart == {<<PURE, 0>>, <<VAR_HUE, 1>>, <<DIM, MaxHeld>>}

InitRestart == \E p \in SessionsRestart : Boot("v2", p)

PowerCycle ==
  /\ pc = "anim" /\ sketch = "v2"
  /\ \E u \in (IF ReadsUninit(nvram.hue) THEN Uninit ELSE {NoJunk}) :
       \E c \in {Setup("v2", nvram, u)} : SetColour(c)
  /\ lastKey' = 0 /\ repeatCount' = 0
  /\ sinceKey' = 0 /\ sinceHueStep' = 0 /\ uptime' = 0
  /\ was' = [c |-> Cur, nvram |-> nvram, lastKey |-> lastKey, repeatCount |-> repeatCount]
  /\ press' = NoPress
  /\ pc' = "frame"
  /\ UNCHANGED <<sketch, nvram, frame, idle, fired, blinks, passes, timers>>

NextRestart ==
  \/ \E k \in KnownKeys : Key(IDLE_MS + 1, k)
  \/ VaryHue
  \/ SkipHue
  \/ PowerCycle

SpecRestart == InitRestart /\ [][NextRestart]_vars

\* setup() has just run again: only then is millis() 0 after a pass of loop()
Restarted == pc = "frame" /\ uptime = 0 /\ passes > 0

\* C19 (persistence round trip, v2): when a fired command has been handled
\* the record in EEPROM equals the current (hue, sat, bright, pwmCyclesON,
\* variableHue, hueStepTime); start-up leaves these six globals equal to the
\* record, so after a restart right after a command they are as the command
\* left them.
C19_PersistenceRoundTrip ==
  sketch = "v2"
    => /\ (pc = "anim" /\ fired # 0) => nvram = Record(Cur)
       /\ Restarted => Record(Cur) = nvram
       /\ (Restarted /\ fired # 0) => Record(Cur) = Record(was.c)

\* restarted right after a Dim that took one PWM cycle away
C19_RestartedAfterDim ==
  /\ sketch = "v2" /\ Restarted /\ fired = DIM
  /\ pwmCyclesON = 6 /\ nvram.pwmCyclesON = 6 /\ was.c.pwmCyclesON = 6


\* --------------------------------------------- v2: start-up on any record
\* The v2 sketch powered up with a record in EEPROM that no session of the
\* sketch need have written, then keys after idle gaps.
\* an erased EEPROM reads as 0xff bytes: the floats are NaN, the int is -1,
\* a bool of 0xff is no value of the type, and variableHue == true may go
\* either way; the unsigned long is 2^32 - 1, kept here as the largest
\* integer of the checker (no key of SpecBoot reads hueStepTime)
Erased(b) ==
  [hue |-> NaN, sat |-> NaN, bright |-> NaN, pwmCyclesON |-> 0 - 1,
   variableHue |-> b, hueStepTime |-> 2147483647]

RecordsBoot ==
  {Erased(b) : b \in BOOLEAN}
  \cup {DefaultRecord,
        [DefaultRecord EXCEPT !.sat = F(1, 2), !.pwmCyclesON = 3],
        [DefaultRecord EXCEPT !.pwmCyclesON = 11],
        [DefaultRecord EXCEPT !.sat = 2 * One],
        [DefaultRecord EXCEPT !.bright = Neg(One)],
        [DefaultRecord EXCEPT !.hue = 300 * One, !.variableHue = TRUE]}

KeysBoot == {INIT, PURE, SATURATE, DIM, BRIGHTEN}

InitBoot == \E rec \in RecordsBoot : Restart(rec)

NextBoot ==
  \/ \E k \in KeysBoot : Key(IDLE_MS + 1, k)
  \/ VaryHue
  \/ SkipHue

SpecBoot == InitBoot /\ [][NextBoot]_vars

\* the record the claim takes as sound
SoundRecord(rec) ==
  /\ rec.pwmCyclesON \in 0..7
  /\ FGe(rec.sat, 0) /\ FLe(rec.sat, One)
  /\ FGe(rec.bright, 0) /\ FLe(rec.bright, One)
  /\ FGe(rec.hue, 0) /\ FLe(rec.hue, 255 * One)

\* C20 (boot fallback, v2): when the record read at start-up is erased or
\* out of range, setup() leaves sat = 1, bright = 1/3, pwmCyclesON = 7 and
\* the animation off.
C20_BootFallback ==
  (sketch = "v2" /\ passes = 0 /\ ~SoundRecord(nvram))
    => (sat = One /\ bright = F(1, 3) /\ pwmCyclesON = 7 /\ ~variableHue)


\* ------------------------------------- both sketches: the VAR_HUE key, again
\* From a session in which VAR_HUE fired up to MaxVaryHeld times: passes of
\* loop() 108 ms apart with no frame, and VAR_HUE pressed after idle gaps.
MaxVaryHeld == 3
MaxVaryPasses == 8

InitVary == \E sk \in {"v1", "v2"}, n \in 0..MaxVaryHeld : Boot(sk, <<VAR_HUE, n>>)

VaryKey ==
  /\ passes < MaxVaryPasses
  /\ FramePhase(IDLE_MS + 1, KeyFrame(VAR_HUE), passes + 1)

NoKey ==
  /\ passes < MaxVaryPasses
  /\ FramePhase(108, NoFrame, passes + 1)

NextVary == VaryKey \/ NoKey \/ VaryHue \/ SkipHue

SpecVary == InitVary /\ [][NextVary]_vars

\* C21 (step-interval bounds, both sketches): hueStepTime stays within
\* MIN_STEP_TIME .. MAX_STEP_TIME, and a VAR_HUE command received while the
\* animation is on doubles it unless that would pass MAX_STEP_TIME.
C21_StepTimeInBounds ==
  /\ hueStepTime >= MIN_STEP_TIME /\ hueStepTime <= MAX_STEP_TIME
  /\ (pc = "anim" /\ fired = VAR_HUE /\ was.c.variableHue)
       => IF 2 * was.c.hueStepTime <= MAX_STEP_TIME
          THEN hueStepTime = 2 * was.c.hueStepTime
          ELSE hueStepTime \in {was.c.hueStepTime, MAX_STEP_TIME}


\* C22 (VAR_HUE slows the cycling, both sketches): the first VAR_HUE starts
\* the animation at the current sat and bright; after k further presses the
\* hue steps are 100 * 2^k ms apart, so that with hueStepTime at 200 or more
\* the pass of loop() that comes 108 ms after the step timer was started,
\* with no frame to handle, does not step the hue.
C22_VaryHueSlows ==
  /\ (pc = "anim" /\ fired = VAR_HUE /\ ~was.c.variableHue)
       => (variableHue /\ sat = was.c.sat /\ bright = was.c.bright)
  /\ (pc = "frame" /\ passes = 1 /\ ~frame.pending /\ variableHue
        /\ hueStepTime >= 2 * MIN_STEP_TIME)
       => hue = was.c.hue


\* ------------------------------------- v2: the timer-overflow interrupts
\* TIMER1_OVF_vect and TIMER2_OVF_vect run about every 2 ms (prescaler 64,
\* phase-correct 8-bit PWM) and preempt loop() between any two instructions.
\* loop() is taken in steps: the switch, blink() where the case calls it (the
\* registers cleared, delay(50), the registers set, delay(50)), the stores of
\* the HSBtoRGB that follows the switch, and the variable-hue section.

\* the unbiased binary exponent of a float of magnitude x > 0
RECURSIVE Exponent(_)
Exponent(x) ==
  IF x >= 2 * Scale THEN Exponent(x \div 2) + 1
  ELSE IF x < Scale THEN Exponent(2 * x) - 1
  ELSE 0

\* bits 7..1 of the biased exponent: with the sign, the top byte of a float
HalfExp(x) == (Exponent(Abs(x)) + 127) \div 2

RECURSIVE Shift4(_, _)
Shift4(x, d) ==
  IF d = 0 THEN x
  ELSE IF d > 0 THEN Shift4(4 * x, d - 1)
  ELSE Shift4(x \div 4, d + 1)

\* A float read while its four bytes are being stored one at a time: the
\* top byte of hi with the three low bytes of lo.  A zero top byte gives a
\* value below 2^-125, read here as 0.
Mixed(hi, lo) ==
  IF hi = 0 THEN 0
  ELSE IF lo = 0
  THEN (IF hi < 0 THEN -1 ELSE 1) * (Shift4(Scale, HalfExp(hi) - 63) \div 2)
  ELSE (IF hi < 0 THEN -1 ELSE 1) * Shift4(Abs(lo), HalfExp(hi) - HalfExp(lo))

\* what a handler can read of a channel that holds old while loop() stores
\* new into it.  A read torn within the low bytes is within 1/128 of old or
\* of new and is left out.
TornRead(old, new) == {old, new, Mixed(old, new), Mixed(new, old)}

\* the channels as the HSBtoRGB after the switch will leave them
Stored(u) == Derive2(Quiet(Cur), u)

\* the values a handler can read of the channels
Reads ==
  IF pc = "storing"
  THEN UNION {{[red |-> r, green |-> g, blue |-> b] :
                 r \in TornRead(red, Stored(u).red),
                 g \in TornRead(green, Stored(u).green),
                 b \in TornRead(blue, Stored(u).blue)} :
              u \in (IF ReadsUninit(hue) THEN Uninit ELSE {NoJunk})}
  ELSE {[red |-> red, green |-> green, blue |-> blue]}

\* the test with < for <=
GateOnStrict(counter) == counter < pwmCyclesON % UINT_MOD

\* pwmCounter <= pwmCyclesON, an unsigned int against an int
GateOn(counter) == counter <= pwmCyclesON % UINT_MOD

\* ISR(TIMER1_OVF_vect)
Overflow1(n, v) ==
  pwm' = [pwm EXCEPT !.pwmCounter1 = n,
                     !.OCR1A = IF GateOn(n) THEN Duty2(v.red) ELSE 0,
                     !.OCR1B = IF GateOn(n) THEN Duty2(v.green) ELSE 0]

\* ISR(TIMER2_OVF_vect)
Overflow2(n, v) ==
  pwm' = [pwm EXCEPT !.pwmCounter2 = n,
                     !.OCR2A = IF GateOn(n) THEN Duty2(v.blue) ELSE 0]

\* setup() ends with sei() and nothing masks the interrupts after it
Unmasked == sketch = "v2"

Timer1 ==
  /\ Unmasked
  /\ \E v \in Reads : Overflow1((pwm.pwmCounter1 + 1) % 8, v)
  /\ UNCHANGED <<sketch, colour, nvram, keying, sinceHueStep, uptime, pc, history>>

Timer2 ==
  /\ Unmasked
  /\ \E v \in Reads : Overflow2((pwm.pwmCounter2 + 1) % 8, v)
  /\ UNCHANGED <<sketch, colour, nvram, keying, sinceHueStep, uptime, pc, history>>

\* blink() restarting the sub-cycle of the first handler as well
BlinkOffRestart == [pwm EXCEPT !.OCR1A = 0, !.OCR1B = 0, !.OCR2A = 0, !.pwmCounter1 = 0]

\* blink(): OCR1A = 0; OCR1B = 0; OCR2A = 0
BlinkOff == [pwm EXCEPT !.OCR1A = 0, !.OCR1B = 0, !.OCR2A = 0]

\* loop() up to the end of the switch, on the frame of key k received after
\* an idle gap; where the case calls blink(), up to its first delay
KeyStep(k) ==
  /\ pc = "frame" /\ sketch = "v2"
  /\ \E c \in {Switch2(k, Quiet(Cur), NoJunk)} :
       /\ SetColour(c)
       /\ Clocks(IDLE_MS + 1, [ks |-> [sinceKey |-> 0], c |-> c],
                 Cap(uptime + IDLE_MS + 1, 2 * MIN_STEP_TIME))
       /\ blinks' = c.blinks
       /\ pwm' = IF c.blinks > 0 THEN BlinkOff ELSE pwm
       /\ pc' = IF c.blinks > 0 THEN "blink off" ELSE "switched"
  /\ lastKey' = k /\ repeatCount' = 0
  /\ frame' = KeyFrame(k) /\ idle' = TRUE /\ fired' = k
  /\ was' = [c |-> Cur, nvram |-> nvram, lastKey |-> lastKey, repeatCount |-> repeatCount]
  /\ press' = [key |-> k, reps |-> 0, fires |-> 1, fresh |-> TRUE]
  /\ passes' = passes + 1
  /\ UNCHANGED <<sketch, nvram>>

\* blink(): delay(50) has ended; OCR1A = 255; OCR1B = 255; OCR2A = 255
BlinkOn ==
  /\ pc = "blink off"
  /\ pwm' = [pwm EXCEPT !.OCR1A = 255, !.OCR1B = 255, !.OCR2A = 255]
  /\ pc' = "blink on"
  /\ UNCHANGED <<sketch, colour, nvram, keying, sinceHueStep, uptime, history, seen>>

\* blink(): the second delay(50) has ended and the case breaks
BlinkEnd ==
  /\ pc = "blink on"
  /\ pc' = "switched"
  /\ UNCHANGED <<sketch, colour, nvram, keying, sinceHueStep, uptime, history, timers>>

\* HSBtoRGB(hue, sat, bright, red, green, blue) has begun to store
StoreBegin ==
  /\ pc = "switched"
  /\ pc' = "storing"
  /\ UNCHANGED <<sketch, colour, nvram, keying, sinceHueStep, uptime, history, timers>>

\* HSBtoRGB has returned and the record is saved: the command is complete
StoreEnd ==
  /\ pc = "storing"
  /\ \E u \in (IF ReadsUninit(hue) THEN Uninit ELSE {NoJunk}) :
       \E c \in {Stored(u)} :
         /\ SetColour(c)
         /\ nvram' = Record(c)
         /\ seen' = [seen EXCEPT !.held = @ \cup {<<c.red, c.green, c.blue>>}]
  /\ pc' = "anim"
  /\ UNCHANGED <<sketch, keying, sinceHueStep, uptime, history, pwm>>

\* The v2 sketch from a record at full and at a third of full brightness,
\* with the Brighten key (which blinks at the top) and a preset pressed.
MaxPassesPWM == 1
RecordsPWM == {DefaultRecord, [DefaultRecord EXCEPT !.bright = One]}
KeysPWM == {BRIGHTEN, WARM_WHITE}

InitPWM == \E rec \in RecordsPWM : Restart(rec)

\* history: the channels that stand when the frame arrives are those of
\* setup() or of the step completed last
PressPWM ==
  \E k \in KeysPWM :
    /\ passes < MaxPassesPWM
    /\ KeyStep(k)
    /\ seen' = [seen EXCEPT !.held = @ \cup {<<red, green, blue>>}]
Tick1 == Timer1 /\ UNCHANGED seen
Tick2 == Timer2 /\ UNCHANGED seen

NextPWM ==
  \/ PressPWM
  \/ BlinkOn
  \/ BlinkEnd
  \/ StoreBegin
  \/ StoreEnd
  \/ SkipHue
  \/ Tick1
  \/ Tick2

SpecPWM == InitPWM /\ [][NextPWM]_vars

\* C23: from blink()'s write of 0 to the three compare registers until its
\* first delay(50) ends, all three registers stay at 0
C23_BlinkForcedOff ==
  pc = "blink off" => (pwm.OCR1A = 0 /\ pwm.OCR1B = 0 /\ pwm.OCR2A = 0)


\* the integer parts of the values in [0, 255] that channel i (1 red, 2 green,
\* 3 blue) held when setup(), a command or an animation step had completed
ValidDuty(i) ==
  {0} \cup {Trunc(h[i]) :
             h \in {t \in seen.held \cup (IF passes = 0 THEN {<<red, green, blue>>} ELSE {}) :
                      t[i] >= 0 /\ t[i] <= MAX_RGB}}

\* C24: whatever the interleaving of the overflow handlers with loop(), each
\* duty a handler writes is 0 or the integer part of a value in [0, 255] that
\* the channel held when some command or animation step had completed
C24_StaleButValidDuty ==
  [][/\ pwm'.pwmCounter1 # pwm.pwmCounter1
          => (pwm'.OCR1A \in ValidDuty(1) /\ pwm'.OCR1B \in ValidDuty(2))
     /\ pwm'.pwmCounter2 # pwm.pwmCounter2 => pwm'.OCR2A \in ValidDuty(3)]_vars


\* C25: after the RESET/INIT command, from any prior state, sat = 1, the
\* channels are (0, 0, 255) and hueStepTime is MIN_STEP_TIME
C25_ResetToBlue ==
  (pc = "anim" /\ fired = INIT)
    => /\ sat = One
       /\ red = 0 /\ green = 0 /\ blue = MAX_RGB
       /\ hueStepTime = MIN_STEP_TIME


\* ------------------------------------------- v2: the sub-cycles of the PWM
\* The overflow handlers against whole passes of loop() that handle Dim and
\* Brighten, from records at the lowest and the highest pwmCyclesON.  The
\* history keeps, for each handler, the branch it took in its latest
\* invocations, up to eight, since pwmCyclesON was last assigned.
MaxPassesGate == 1
Window == 8
RecordsGate ==
  {[DefaultRecord EXCEPT !.bright = One, !.pwmCyclesON = 0],
   [DefaultRecord EXCEPT !.bright = One]}
KeysGate == {DIM, BRIGHTEN}

InitGate == \E rec \in RecordsGate : Restart(rec)

Latest(s) == IF Len(s) > Window THEN Tail(s) ELSE s

\* one pass of loop() on the frame of key k; blink() leaves the registers at 255
PressGate ==
  \E k \in KeysGate :
    /\ passes < MaxPassesGate
    /\ Frame(IDLE_MS + 1, KeyFrame(k), passes + 1)
    /\ pwm' = IF blinks' > 0
              THEN [pwm EXCEPT !.OCR1A = 255, !.OCR1B = 255, !.OCR2A = 255]
              ELSE pwm
    /\ seen' = [seen EXCEPT !.gates1 = <<>>, !.gates2 = <<>>]

Gated1 ==
  /\ Timer1
  /\ seen' = [seen EXCEPT !.gates1 = Latest(Append(@, GateOn(pwm'.pwmCounter1)))]

Gated2 ==
  /\ Timer2
  /\ seen' = [seen EXCEPT !.gates2 = Latest(Append(@, GateOn(pwm'.pwmCounter2)))]

NextGate == PressGate \/ SkipHue \/ Gated1 \/ Gated2

SpecGate == InitGate /\ [][NextGate]_vars

\* the invocations in the window that took the duty branch
Lit(s) == Cardinality({i \in 1..Len(s) : s[i]})

\* C26: each overflow handler advances its own counter by 1 modulo 8, the
\* counter is always in 0..7, the handler writes the channel's duty if the
\* counter <= pwmCyclesON and 0 otherwise; with pwmCyclesON = L in 0..7 held,
\* exactly L+1 of any 8 consecutive invocations of a handler output the duty
C26_SubCycleGating ==
  /\ [](/\ pwm.pwmCounter1 \in 0..7 /\ pwm.pwmCounter2 \in 0..7
        /\ (pwmCyclesON \in 0..7 /\ Len(seen.gates1) = Window)
             => Lit(seen.gates1) = pwmCyclesON + 1
        /\ (pwmCyclesON \in 0..7 /\ Len(seen.gates2) = Window)
             => Lit(seen.gates2) = pwmCyclesON + 1)
  /\ [][/\ pwm'.pwmCounter1 # pwm.pwmCounter1
             => /\ pwm'.pwmCounter1 = (pwm.pwmCounter1 + 1) % 8
                /\ pwm'.OCR1A = IF pwm'.pwmCounter1 <= pwmCyclesON THEN Duty2(red) ELSE 0
                /\ pwm'.OCR1B = IF pwm'.pwmCounter1 <= pwmCyclesON THEN Duty2(green) ELSE 0
        /\ pwm'.pwmCounter2 # pwm.pwmCounter2
             => /\ pwm'.pwmCounter2 = (pwm.pwmCounter2 + 1) % 8
                /\ pwm'.OCR2A = IF pwm'.pwmCounter2 <= pwmCyclesON THEN Duty2(blue) ELSE 0]_vars

\* both handlers have run eight times since Dim took pwmCyclesON from 7 to 6
C26_EightSinceDim ==
  /\ fired = DIM /\ pwmCyclesON = 6
  /\ Len(seen.gates1) = Window /\ Len(seen.gates2) = Window
  /\ Lit(seen.gates1) = 7


\* --------------------------------------------- v2: the two tiers of dimming
\* The v2 sketch from records at each tier (pwmCyclesON 0, 1 and 7, bright
\* 1, 1/3 and just above the floor), every key pressed after an idle gap.
MaxPassesTiers == 2
RecordsTiers ==
  {[DefaultRecord EXCEPT !.bright = b, !.pwmCyclesON = n] :
     b \in {One, F(1, 3), F(5, 1000)}, n \in {0, 1, 7}}

InitTiers == \E rec \in RecordsTiers : Restart(rec)

PressTiers ==
  \E k \in KnownKeys :
    passes < MaxPassesTiers /\ FramePhase(IDLE_MS + 1, KeyFrame(k), passes + 1)

NextTiers == PressTiers \/ VaryHue \/ SkipHue

SpecTiers == InitTiers /\ [][NextTiers]_vars

\* 'pwmCyclesON > 0 implies bright = 1', of a colour state c
FullAboveZero(c) == c.pwmCyclesON > 0 => c.bright = One

\* C27: Dim lowers only pwmCyclesON while it is above 0 and scales bright down
\* only when pwmCyclesON is 0; Brighten raises pwmCyclesON only in a step in
\* which bright is clamped to 1; every command preserves 'pwmCyclesON > 0
\* implies bright = 1' once it holds
C27_TwoTierDimming ==
  (pc = "anim" /\ fired # 0)
    => /\ (fired = DIM /\ was.c.pwmCyclesON > 0)
            => (pwmCyclesON = was.c.pwmCyclesON - 1 /\ bright = was.c.bright)
       /\ (fired = DIM /\ bright # was.c.bright)
            => (was.c.pwmCyclesON = 0 /\ pwmCyclesON = 0 /\ bright < was.c.bright)
       /\ (fired = BRIGHTEN /\ pwmCyclesON # was.c.pwmCyclesON)
            => /\ pwmCyclesON = was.c.pwmCyclesON + 1
               /\ bright = One
               /\ FGt(FMul(was.c.bright, BrightUp2), One)
       /\ FullAboveZero(was.c) => FullAboveZero(Cur)

\* Dim has taken pwmCyclesON from 1 to 0 at bright 1, and Brighten has then
\* clamped bright to 1 and raised pwmCyclesON
C27_RaisedAfterDim ==
  /\ pc = "anim" /\ fired = BRIGHTEN /\ passes = 2
  /\ was.c.pwmCyclesON = 0 /\ was.c.bright = One
  /\ pwmCyclesON = 1 /\ bright = One


\* a and b, in units of a channel, agree within 5% of b, or within 0.05 where
\* b is below 1: well above what rounding does to either
Agree(a, b) == IsFinite(a) /\ IsFinite(b) /\ Abs(a - b) * 20 <= Max(Abs(b), One)

\* The arithmetic of this model holds magnitudes up to FMAX.  RGBtoHSB
\* multiplies by MAX_RGB / sum, which is beyond it when the channels sum to
\* less than 0.01; such states are left out of the comparison.
InModelRange == IsFinite(sat) /\ red + green + blue >= F(1, 100)

\* C28 (v1): after every command handler and every animation step, the stored
\* red, green, blue equal HSBtoRGB(hue, sat, bright) and the stored bright
\* equals (red + green + blue) / (3 * 255), within rounding tolerance, Dim at
\* the brightness floor included
C28_HSBAgreesWithRGB ==
  (sketch = "v1" /\ pc \in {"frame", "anim"} /\ InModelRange)
    => /\ \E x \in {HSBtoRGB1(hue, sat, bright)} :
            Agree(red, x.red) /\ Agree(green, x.green) /\ Agree(blue, x.blue)
       /\ Agree(FMul(bright, 3 * MAX_RGB), red + green + blue)


\* ------------------------------------------------- the variable-hue tick
\* Both sketches from the hue of power-up and from the top of the hue range
\* (Previous Hue pressed once), with passes of loop() that handle a key after
\* an idle gap and passes without a frame, 40 ms and 108 ms apart.
MaxPassesTick == 4
SessionsTick == {<<PURE, 0>>, <<PREV_HUE, 1>>}
KeysTick == {VAR_HUE, NEXT_HUE, INIT}
GapsTick == {40, 108}

InitTick == \E sk \in {"v1", "v2"}, p \in SessionsTick : Boot(sk, p)

KeyTick ==
  \E k \in KeysTick :
    passes < MaxPassesTick /\ FramePhase(IDLE_MS + 1, KeyFrame(k), passes + 1)

IdleTick ==
  \E dt \in GapsTick :
    passes < MaxPassesTick /\ FramePhase(dt, NoFrame, passes + 1)

NextTick == KeyTick \/ IdleTick \/ VaryHue \/ SkipHue

SpecTick == InitTick /\ [][NextTick]_vars

\* hue one step on, 0 past the top of the range: 1/400 of [0, 1] in v1, of
\* [0, 255] in v2
OneStepOn(sk, h) ==
  IF sk = "v1"
  THEN (IF FGt(FAdd(h, F(1, HUE_STEPS)), One) THEN 0 ELSE FAdd(h, F(1, HUE_STEPS)))
  ELSE (IF FGt(FAdd(h, F(255, HUE_STEPS)), MAX_RGB) THEN 0 ELSE FAdd(h, F(255, HUE_STEPS)))

\* the channels that HSBtoRGB(h, sat, bright) can return
Derived(sk, h) ==
  IF sk = "v1"
  THEN {<<x.red, x.green, x.blue>> : x \in {HSBtoRGB1(h, sat, bright)}}
  ELSE {<<x.red, x.green, x.blue>> :
          x \in {HSBtoRGB2(h, sat, bright, u) :
                   u \in (IF ReadsUninit(h) THEN Uninit ELSE {NoJunk})}}

C30_SingleWriter ==
  /\ [][/\ (pwm'.pwmCounter1 # pwm.pwmCounter1 \/ pwm'.pwmCounter2 # pwm.pwmCounter2)
             => UNCHANGED <<colour, nvram, keying, sinceHueStep, uptime, pc>>
        /\ (pc' # pc \/ ~UNCHANGED colour)
             => (pwm'.pwmCounter1 = pwm.pwmCounter1 /\ pwm'.pwmCounter2 = pwm.pwmCounter2)]_vars
  /\ [](Unmasked /\ Reads # {})

\* both handlers have run between the switch of a command and its HSBtoRGB
C30_HandlersInsideCommand ==
  /\ pc = "switched" /\ fired = WARM_WHITE
  /\ pwm.pwmCounter1 > 0 /\ pwm.pwmCounter2 > 0
  /\ pwm.OCR1B = 147


\* ------------------------------------------------------------ the hue range
\* C31: after every command handler and every animation step the stored hue
\* lies in the half-open range, [0, 1) in v1 and [0, 255) in v2, so that no
\* Next Hue or Previous Hue step at the wrap leaves the colour as it was
C31_HueHalfOpen ==
  /\ FGe(hue, 0)
  /\ FLt(hue, IF sketch = "v1" THEN One ELSE MAX_RGB)
  /\ (pc = "anim" /\ fired \in {NEXT_HUE, PREV_HUE} /\ hue # was.c.hue)
       => <<red, green, blue>> # <<was.c.red, was.c.green, was.c.blue>>


\* ------------------------------------------------------ v1: the hue step
\* the hue lies between red (1/3) and green (2/3)
RedToGreen(h) == FGt(h, F(1, 3)) /\ FLt(h, F(2, 3))

\* C32 (v1): a Next Hue or Previous Hue step taken while the hue lies between
\* red and green moves the hue by half the amount of a step elsewhere, and
\* every step elsewhere moves it by 1/HUE_STEPS (the steps that wrap aside)
C32_HalfStepRedToGreen ==
  (sketch = "v1" /\ pc = "anim" /\ fired \in {NEXT_HUE, PREV_HUE}
     /\ ~(fired = NEXT_HUE /\ hue = 0) /\ ~(fired = PREV_HUE /\ hue = One))
    => IF RedToGreen(was.c.hue)
       THEN 2 * Abs(hue - was.c.hue) = F(1, HUE_STEPS)
       ELSE Abs(hue - was.c.hue) = F(1, HUE_STEPS)


InRange(x) == FGe(x, 0) /\ FLe(x, MAX_RGB)

\* C33 (hardware rounding, both sketches): after a command handler or an
\* animation step, the duty given to each channel whose stored value lies in
\* [0, 255] is that value rounded to the nearest integer: 255 from 254.5 on,
\* 0 below 0.5
C33_DutyIsNearestInteger ==
  pc = "anim" =>
    \A x \in {red, green, blue} :
      InRange(x) =>
        /\ Byte(DutyInt(sketch, x)) = Round(x)
        /\ 2 * x >= 509 * One => Byte(DutyInt(sketch, x)) = 255
        /\ 2 * x < One => Byte(DutyInt(sketch, x)) = 0


\* a decoded frame that is all zero or not of the NEC protocol
IsNoise(f) == f.pending /\ ((f.hi = 0 /\ f.lo = 0) \/ f.protocolNum # NEC)

\* C34 (noise frames, both sketches): a pass of loop() that decodes a frame
\* whose value is 0 or whose protocol is not NEC runs no handler and leaves
\* the colour, dimming and animation state and the saved record alone;
\* lastKey and repeatCount are what the idle check of the pass left, and the
\* idle timer is not restarted
C34_NoiseFramesIgnored ==
  (pc = "anim" /\ IsNoise(frame))
    => /\ fired = 0
       /\ Cur = was.c
       /\ nvram = was.nvram
       /\ lastKey = (IF idle THEN 0 ELSE was.lastKey)
       /\ repeatCount = (IF idle THEN 0 ELSE was.repeatCount)
       /\ sinceKey > 0


\* C35 (repeat frames with no stored key, both sketches): a pass of loop()
\* that handles its frame from lastKey = 0 (at boot, or after the idle check
\* has reset it) and whose frame is not a concrete key frame runs no handler,
\* leaves the colour, dimming and animation state and the saved record alone,
\* and leaves lastKey at 0, however many repeat frames came before
C35_RepeatsNeedAKey ==
  (pc = "anim" /\ ~IsConcrete(frame) /\ (idle \/ was.lastKey = 0))
    => /\ fired = 0
       /\ Cur = was.c
       /\ nvram = was.nvram
       /\ lastKey = 0

\* C35's case: a repeat frame past the fifth, so that MyDecoder.value becomes
\* lastKey, while lastKey is 0
C35_SixthRepeatOfNothing ==
  /\ pc = "anim"
  /\ IsRepeat(frame)
  /\ ~idle
  /\ was.lastKey = 0
  /\ was.repeatCount > REPEAT_AFTER
  /\ fired = 0


\* C36 (determinism of the rainbow mapping, v2): after a command whose hue
\* lies in [0, 255], the channels are the ones HSBtoRGB gives for (hue, sat,
\* bright) whatever its locals held on entry, and with sat = 1 one of them
\* is 0
C36_RainbowDetermined ==
  (sketch = "v2" /\ pc = "anim" /\ fired # 0 /\ FGe(hue, 0) /\ FLe(hue, MAX_RGB))
    => /\ \A u \in Uninit :
            \E o \in {HSBtoRGB2(hue, sat, bright, u)} :
              <<o.red, o.green, o.blue>> = <<red, green, blue>>
       /\ sat = One => 0 \in {red, green, blue}


\* ------------------------------------------------- a key held for hours
\* repeat frames still to come before the unsigned int is full
MaxBefore == 3
\* frame phases explored from an initial state of SpecWidth
MaxPassesWidth == 10

\* the repeat frames that repeatCount has counted so far
HeldFrames == UINT_MOD - MaxBefore

\* A key whose handler settles (PURE, WARM_WHITE) held since power-up through
\* HeldFrames repeat frames 108 ms apart: the colour is the one the handler
\* settled on, v2 has saved it, and the last pass handled a repeat frame.
InitWidth ==
  /\ sketch \in {"v1", "v2"}
  /\ \E k \in HeldKeys :
       \E c \in {Runs(sketch, k, MaxRun, Setup(sketch, DefaultRecord, NoJunk))} :
         /\ hue = c.hue /\ sat = c.sat /\ bright = c.bright
         /\ red = c.red /\ green = c.green /\ blue = c.blue
         /\ pwmCyclesON = c.pwmCyclesON /\ variableHue = c.variableHue
         /\ hueStepTime = c.hueStepTime
         /\ nvram = Record(c)
         /\ was = [c |-> c, nvram |-> Record(c), lastKey |-> k,
                   repeatCount |-> HeldFrames - 1]
         /\ lastKey = k
         /\ fired = k
         /\ press = [key |-> k, reps |-> HeldFrames,
                     fires |-> HeldFrames - REPEAT_AFTER, fresh |-> TRUE]
  /\ repeatCount = HeldFrames
  /\ sinceKey = 0
  /\ sinceHueStep = 0
  /\ uptime = 2 * MIN_STEP_TIME + 1
  /\ pc = "frame"
  /\ frame = RepeatFrame
  /\ idle = FALSE
  /\ blinks = 0
  /\ passes = 0
  /\ pwm = PowerUp /\ seen = Unseen

\* a pass of loop() with the next repeat frame of the held key
HoldOn == passes < MaxPassesWidth /\ FramePhase(108, RepeatFrame, passes + 1)
\* a pass of loop() after the key was let go for more than 500 ms
LetGo == passes < MaxPassesWidth /\ FramePhase(IDLE_MS + 1, NoFrame, passes + 1)

NextWidth == HoldOn \/ LetGo \/ VaryHue \/ SkipHue

SpecWidth == InitWidth /\ [][NextWidth]_vars

\* C37 (repeat counter width, both sketches): at a repeat frame that comes
\* without an idle gap while repeatCount is above 5, repeatCount stays above
\* 5, and a key held past its sixth repeat frame fires at every repeat frame
C37_CountStaysAboveFive ==
  /\ (pc = "anim" /\ IsRepeat(frame) /\ ~idle /\ was.repeatCount > REPEAT_AFTER)
       => repeatCount > REPEAT_AFTER
  /\ (pc = "anim" /\ IsRepeat(frame) /\ ~idle /\ press.key \in KnownKeys
        /\ press.reps > REPEAT_AFTER + 1)
       => fired = press.key

=============================================================================
